---------------------------- MODULE Spec2Model ----------------------------
(***************************************************************************)
(* A model of ImageHandler (source/image-handler/image-handler.js and the  *)
(* second copy of that file, unnamed/part_000, which differs only in the   *)
(* TEPWatermark branch).                                                   *)
(*                                                                         *)
(* One request is one run of process(request).  Every `await` of the code  *)
(* is a suspension point and a value of pc; an action is the code between  *)
(* two suspension points of one loop iteration.  The collaborators (the    *)
(* sharp image handle, S3, Rekognition) answer through \E over small sets. *)
(*                                                                         *)
(* JavaScript values:                                                      *)
(*   - a string is a sequence of one-character strings;                    *)
(*   - a value that may be undefined, a string or a number is a record     *)
(*     [t, s, n] with t in {"undef", "str", "num", "nan"};                 *)
(*   - an object with insertion-ordered keys (edits) is a sequence of      *)
(*     [key, value] records;                                               *)
(*   - a fractional number is a pair numerator / denominator, and the only *)
(*     conversion back to an integer is parseInt.                          *)
(***************************************************************************)
EXTENDS Integers, Sequences, FiniteSets, TLC

(***************************************************************************)
(* Bounds of the model.                                                    *)
(***************************************************************************)
\* longest caller-supplied edit mapping (number of keys)
MaxEdits == 2
\* most faces the Face Detector answers with
MaxFaces == 2

(***************************************************************************)
(* JavaScript values.                                                      *)
(***************************************************************************)
Undef == [t |-> "undef", s |-> <<>>, n |-> 0]
NaN == [t |-> "nan", s |-> <<>>, n |-> 0]
Str(s) == [t |-> "str", s |-> s, n |-> 0]
Num(n) == [t |-> "num", s |-> <<>>, n |-> n]

\* if (v): undefined, NaN, 0 and "" are falsy
Truthy(v) ==
    CASE v.t = "undef" -> FALSE
      [] v.t = "nan" -> FALSE
      [] v.t = "num" -> v.n # 0
      [] v.t = "str" -> v.s # <<>>

DigitChars == <<"0", "1", "2", "3", "4", "5", "6", "7", "8", "9">>

IsDigit(c) == \E d \in 1..10 : DigitChars[d] = c

DigitVal(c) == (CHOOSE d \in 1..10 : DigitChars[d] = c) - 1

\* the longest prefix of s made of decimal digits
RECURSIVE DigitPrefix(_)
DigitPrefix(s) ==
    IF s = <<>> \/ ~IsDigit(Head(s)) THEN <<>>
    ELSE <<Head(s)>> \o DigitPrefix(Tail(s))

RECURSIVE DigitsValue(_, _)
DigitsValue(s, acc) ==
    IF s = <<>> THEN acc ELSE DigitsValue(Tail(s), acc * 10 + DigitVal(Head(s)))

\* parseInt(string): optional sign, then the leading decimal digits; anything
\* after them is ignored; no digit at all gives NaN
ParseIntStr(s) ==
    LET signed == s # <<>> /\ Head(s) \in {"-", "+"}
        body == IF signed THEN Tail(s) ELSE s
        ds == DigitPrefix(body)
    IN  IF ds = <<>> THEN NaN
        ELSE IF signed /\ Head(s) = "-" THEN Num(0 - DigitsValue(ds, 0))
        ELSE Num(DigitsValue(ds, 0))

\* String.prototype.endsWith(c) for a one-character c
EndsWith(s, c) == s # <<>> /\ s[Len(s)] = c

\* String.prototype.replace(c, ''): removes the FIRST occurrence of c
RECURSIVE RemoveFirst(_, _)
RemoveFirst(s, c) ==
    IF s = <<>> THEN <<>>
    ELSE IF Head(s) = c THEN Tail(s)
    ELSE <<Head(s)>> \o RemoveFirst(Tail(s), c)

\* the first significant decimal digit of num/den, 0 < num/den < 1
RECURSIVE LeadingDigit(_, _)
LeadingDigit(num, den) ==
    IF num >= den THEN num \div den ELSE LeadingDigit(num * 10, den)

\* parseInt(x) for the number x = num/den (den > 0): x is first converted to
\* its decimal string, so the result is x truncated toward zero, except that
\* a nonzero |x| < 1e-6 prints in exponent notation ("3.5e-7") and parses to
\* its first significant digit
ParseIntNum(num, den) ==
    LET mag == IF num < 0 THEN 0 - num ELSE num
        sgn == IF num < 0 THEN 0 - 1 ELSE 1
    IN  IF mag = 0 THEN 0
        ELSE IF mag <= (den - 1) \div 1000000 THEN sgn * LeadingDigit(mag, den)
        ELSE sgn * (mag \div den)

(***************************************************************************)
(* Buffer.prototype.toString('base64').  A buffer is a sequence of bytes,  *)
(* the encoded text a sequence of base64 digits 0..63, with 64 for '='.    *)
(***************************************************************************)
RECURSIVE Base64(_)
Base64(bytes) ==
    IF Len(bytes) = 0 THEN <<>>
    ELSE IF Len(bytes) = 1 THEN
        <<bytes[1] \div 4, (bytes[1] % 4) * 16, 64, 64>>
    ELSE IF Len(bytes) = 2 THEN
        <<bytes[1] \div 4,
          (bytes[1] % 4) * 16 + bytes[2] \div 16,
          (bytes[2] % 16) * 4,
          64>>
    ELSE
        <<bytes[1] \div 4,
          (bytes[1] % 4) * 16 + bytes[2] \div 16,
          (bytes[2] % 16) * 4 + bytes[3] \div 64,
          bytes[3] % 64>>
        \o Base64(SubSeq(bytes, 4, Len(bytes)))


\* parseFloat(string): optional sign, digits, optionally "." and digits; the
\* number is num/den with den a power of ten; no digit at all gives NaN
RECURSIVE Pow10(_)
Pow10(k) == IF k = 0 THEN 1 ELSE 10 * Pow10(k - 1)

ParseFloatStr(s) ==
    LET signed == s # <<>> /\ Head(s) \in {"-", "+"}
        sgn == IF signed /\ Head(s) = "-" THEN 0 - 1 ELSE 1
        body == IF signed THEN Tail(s) ELSE s
        ip == DigitPrefix(body)
        rest == SubSeq(body, Len(ip) + 1, Len(body))
        fp == IF rest # <<>> /\ Head(rest) = "." THEN DigitPrefix(Tail(rest))
              ELSE <<>>
    IN  IF ip = <<>> /\ fp = <<>> THEN [nan |-> TRUE, num |-> 0, den |-> 1]
        ELSE [nan |-> FALSE,
              num |-> sgn * DigitsValue(ip \o fp, 0),
              den |-> Pow10(Len(fp))]

\* parseFloat(v) for a value that is a number or a string
ParseFloat(v) ==
    CASE v.t = "num" -> [nan |-> FALSE, num |-> v.n, den |-> 1]
      [] v.t = "str" -> ParseFloatStr(v.s)
      [] OTHER -> [nan |-> TRUE, num |-> 0, den |-> 1]

\* ResolveAxis that leaves the overlay's own extent out of a negative percentage
ResolveAxisPercentFromEdge(opt, base, overlay) ==
    IF EndsWith(opt.s, "p") THEN
        LET p == ParseIntStr(RemoveFirst(opt.s, "p"))
        IN  IF p.t = "nan" THEN NaN
            ELSE IF p.n < 0
                 THEN Num(ParseIntNum(base * 100 + base * p.n, 100))
                 ELSE Num(ParseIntNum(base * p.n, 100))
    ELSE
        LET v == ParseIntStr(opt.s)
        IN  IF v.t = "nan" THEN NaN
            ELSE IF v.n < 0
                 THEN Num(ParseIntNum(base + v.n - overlay, 1))
                 ELSE Num(ParseIntNum(v.n, 1))

\* ResolveAxis that measures a negative pixel value from the near edge too
ResolveAxisPixelsAsGiven(opt, base, overlay) ==
    IF EndsWith(opt.s, "p") THEN
        LET p == ParseIntStr(RemoveFirst(opt.s, "p"))
        IN  IF p.t = "nan" THEN NaN
            ELSE IF p.n < 0
                 THEN Num(ParseIntNum(base * 100 + base * p.n - overlay * 100, 100))
                 ELSE Num(ParseIntNum(base * p.n, 100))
    ELSE
        LET v == ParseIntStr(opt.s)
        IN  IF v.t = "nan" THEN NaN ELSE Num(ParseIntNum(v.n, 1))

(***************************************************************************)
(* Overlay placement, applyEdits lines 72-88 (left) and 89-105 (top): the  *)
(* two blocks are the same code on (options.left, width) and (options.top, *)
(* height).  opt is a string value; base and overlay are the base image's  *)
(* and the overlay's dimension on the axis.  The result is what the code   *)
(* stores back into options.left / options.top.                            *)
(***************************************************************************)
ResolveAxis(opt, base, overlay) ==
    IF EndsWith(opt.s, "p") THEN
        LET p == ParseIntStr(RemoveFirst(opt.s, "p"))
        IN  IF p.t = "nan" THEN NaN
            ELSE IF p.n < 0
                 THEN Num(ParseIntNum(base * 100 + base * p.n - overlay * 100, 100))
                 ELSE Num(ParseIntNum(base * p.n, 100))
    ELSE
        LET v == ParseIntStr(opt.s)
        IN  IF v.t = "nan" THEN NaN
            ELSE IF v.n < 0
                 THEN Num(ParseIntNum(base + v.n - overlay, 1))
                 ELSE Num(ParseIntNum(v.n, 1))

(***************************************************************************)
(* getCropArea(boundingBox, options, metadata).  A bounding box is         *)
(* [Left, Top, Width, Height, den]: the four fractions are Left/den, ...   *)
(* A coordinate that is NaN (padding does not parse) is [nan |-> TRUE].    *)
(***************************************************************************)
CropCoord(boxNum, boxDen, dim, pad, padFactor) ==
    IF pad.nan THEN [nan |-> TRUE, n |-> 0]
    ELSE [nan |-> FALSE,
          n |-> ParseIntNum(boxNum * dim * pad.den + padFactor * pad.num * boxDen,
                            boxDen * pad.den)]

\* getCropArea rounding down (Math.floor) where the code uses parseInt
getCropAreaFloored(boundingBox, options, metadata) ==
    LET padding == IF options.padding.t # "undef"
                   THEN ParseFloat(options.padding)
                   ELSE [nan |-> FALSE, num |-> 0, den |-> 1]
        coord(boxNum, dim, factor) ==
            [nan |-> padding.nan,
             n |-> (boxNum * dim * padding.den
                    + factor * padding.num * boundingBox.den)
                   \div (boundingBox.den * padding.den)]
    IN  [left |-> coord(boundingBox.Left, metadata.width, 0 - 1),
         top |-> coord(boundingBox.Top, metadata.height, 0 - 1),
         width |-> coord(boundingBox.Width, metadata.width, 2),
         height |-> coord(boundingBox.Height, metadata.height, 2)]

getCropArea(boundingBox, options, metadata) ==
    LET padding == IF options.padding.t # "undef"
                   THEN ParseFloat(options.padding)
                   ELSE [nan |-> FALSE, num |-> 0, den |-> 1]
    IN  [left |-> CropCoord(boundingBox.Left, boundingBox.den, metadata.width,
                            padding, 0 - 1),
         top |-> CropCoord(boundingBox.Top, boundingBox.den, metadata.height,
                           padding, 0 - 1),
         width |-> CropCoord(boundingBox.Width, boundingBox.den, metadata.width,
                             padding, 2),
         height |-> CropCoord(boundingBox.Height, boundingBox.den, metadata.height,
                              padding, 2)]

(***************************************************************************)
(* The sharp image handle.  sharp(bytes) only records its input; every     *)
(* operation called on the handle (resize, extract, composite, rotate,     *)
(* toFormat, ...) is queued, and the queue runs when toBuffer() is called. *)
(* The handle is the sequence of queued [op, arg] records; the size of the *)
(* image it renders is computed from the size of the input.                *)
(***************************************************************************)
\* round(a / b) for a >= 0, b > 0
RoundDiv(a, b) == (2 * a + b) \div (2 * b)

\* size after resize(arg): no width and no height leaves the size alone, one
\* of them scales the other in proportion, both bound the image (fit inside)
ResizedSize(size, arg) ==
    CASE arg.width.t = "num" /\ arg.height.t # "num" ->
            [width |-> arg.width.n,
             height |-> RoundDiv(size.height * arg.width.n, size.width)]
      [] arg.width.t # "num" /\ arg.height.t = "num" ->
            [width |-> RoundDiv(size.width * arg.height.n, size.height),
             height |-> arg.height.n]
      [] arg.width.t = "num" /\ arg.height.t = "num" ->
            IF arg.width.n * size.height <= arg.height.n * size.width
            THEN [width |-> arg.width.n,
                  height |-> RoundDiv(size.height * arg.width.n, size.width)]
            ELSE [width |-> RoundDiv(size.width * arg.height.n, size.height),
                  height |-> arg.height.n]
      [] OTHER -> size

\* extract(rect) throws at the call when a coordinate is not an integer >= 0
ExtractThrows(rect) ==
    \/ rect.left.nan \/ rect.top.nan \/ rect.width.nan \/ rect.height.nan
    \/ rect.left.n < 0 \/ rect.top.n < 0 \/ rect.width.n < 0 \/ rect.height.n < 0

\* a queued extract fits the image it is applied to
RectInside(rect, size) ==
    /\ rect.width.n >= 1 /\ rect.height.n >= 1
    /\ rect.left.n + rect.width.n <= size.width
    /\ rect.top.n + rect.height.n <= size.height

\* the size of the rendered image, the queue applied in call order
RECURSIVE RenderedSize(_, _)
RenderedSize(size, ops) ==
    IF ops = <<>> THEN size
    ELSE LET o == Head(ops)
             next == CASE o.op = "resize" -> ResizedSize(size, o.arg)
                       [] o.op = "extract" ->
                            [width |-> o.arg.width.n, height |-> o.arg.height.n]
                       [] OTHER -> size
         IN  RenderedSize(next, Tail(ops))

\* toBuffer() rejects when a queued extract leaves the image ("bad extract
\* area"): the rectangle is checked when the queue runs, not when it is queued
RECURSIVE RenderFails(_, _)
RenderFails(size, ops) ==
    IF ops = <<>> THEN FALSE
    ELSE LET o == Head(ops)
         IN  \/ o.op = "extract" /\ ~RectInside(o.arg, size)
             \/ RenderFails(RenderedSize(size, <<o>>), Tail(ops))

\* the operations the handle has: image[key] of any other key is undefined and
\* image[key](value) throws a TypeError
HandleOperations == {"resize", "rotate", "extract", "composite", "toFormat"}

(***************************************************************************)
(* Errors.  A collaborator error is a native Error that may carry          *)
(* statusCode and code; what the handler throws itself is a plain object   *)
(* {status, code, message}.  status 0 and code "undefined" stand for an    *)
(* absent field.                                                           *)
(***************************************************************************)
NativeError(statusCode, code, message) ==
    [native |-> TRUE, status |-> 0, statusCode |-> statusCode, code |-> code,
     message |-> message]

Thrown(status, code, message) ==
    [native |-> FALSE, status |-> status, statusCode |-> 0, code |-> code,
     message |-> message]

\* reading .BoundingBox of FaceDetails[faceIdx] when that element is undefined
BoundingBoxTypeError ==
    NativeError(0, "undefined", "Cannot read property 'BoundingBox' of undefined")

NotAFunctionTypeError == NativeError(0, "undefined", "is not a function")

BadExtractAreaError == NativeError(0, "undefined", "extract_area: bad extract area")

UnsupportedImageError ==
    NativeError(0, "undefined", "Input buffer contains unsupported image format")

\* what an operation of the handle throws when it is given parameters it
\* does not take
InvalidParametersError == NativeError(0, "undefined", "Invalid parameters")

(***************************************************************************)
(* The inputs: requests, and what the collaborators may answer.            *)
(***************************************************************************)
Reqs == 1..2

\* request.originalImage: three images and one buffer that is no image
Images == {<<255, 216, 255>>, <<137, 80>>, <<71>>, <<0, 1, 2, 3>>}

IsImage(bytes) == bytes # <<0, 1, 2, 3>>

\* what image.metadata() answers for the bytes
ImageSize(bytes) ==
    CASE bytes = <<255, 216, 255>> -> [width |-> 200, height |-> 100]
      [] bytes = <<137, 80>> -> [width |-> 400, height |-> 300]
      [] OTHER -> [width |-> 120, height |-> 80]

\* what modifiedImage.toBuffer() may answer
EncodedImages == {<<255, 216, 255>>, <<137, 80, 78>>}

\* the size of the object S3 holds
OverlaySizes == {[width |-> 40, height |-> 20], [width |-> 500, height |-> 100]}

\* the errors S3 may answer with
ServiceErrors ==
    {NativeError(404, "NoSuchKey", "The specified key does not exist."),
     NativeError(0, "NetworkingError", "socket hang up")}

\* the errors Rekognition may answer with
DetectorErrors ==
    {NativeError(400, "InvalidImageFormatException",
                 "Request has invalid image format"),
     NativeError(0, "NetworkingError", "socket hang up")}

MissingParameterError ==
    NativeError(0, "MissingRequiredParameter", "Missing required key in params")

\* bounding boxes Rekognition may answer with (fractions over den)
FaceBoxes ==
    {[Left |-> 1, Top |-> 1, Width |-> 2, Height |-> 2, den |-> 4],
     [Left |-> 5, Top |-> 1, Width |-> 4, Height |-> 4, den |-> 8]}

FaceLists == UNION {[1..n -> FaceBoxes] : n \in 0..MaxFaces}

ResizeValues == {[fit |-> "cover", width |-> Num(100), height |-> Undef]}

DefaultResize == [fit |-> "inside", width |-> Undef, height |-> Undef]

OverlayOptions ==
    {[present |-> FALSE, left |-> Undef, top |-> Undef],
     [present |-> TRUE, left |-> Str(<<"1", "0", "p">>),
      top |-> Str(<<"-", "1", "0", "p">>)],
     [present |-> TRUE, left |-> Str(<<"-", "3", "0">>), top |-> Undef],
     [present |-> TRUE, left |-> Str(<<"1", "0", "p">>), top |-> Undef],
     [present |-> TRUE, left |-> Undef, top |-> Str(<<"-", "1", "0", "p">>)]}

OverlayValues ==
    {[bucket |-> "b", key |-> "k", wRatio |-> Num(10), hRatio |-> Undef,
      alpha |-> Undef, options |-> o] : o \in OverlayOptions}

SmartCropValues ==
    {[faceIndex |-> Undef, padding |-> Undef],
     [faceIndex |-> Num(1), padding |-> Num(30)]}

WatermarkValues ==
    {[bucket |-> b, key |-> b, wRatio |-> Undef, hRatio |-> Undef,
      alpha |-> Undef,
      options |-> [name |-> "n", style |-> st, left |-> at[1], top |-> at[2]]] :
        b \in {"undefined", "b"}, st \in {"undefined", "cute"},
        at \in {<<Undef, Undef>>, <<Num(5), Num(7)>>}}

EditKeys == {"resize", "overlayWith", "smartCrop", "TEPWatermark", "rotate",
             "notAnOperation"}

ValuesOf(k) ==
    CASE k = "resize" -> ResizeValues
      [] k = "overlayWith" -> OverlayValues
      [] k = "smartCrop" -> SmartCropValues
      [] k = "TEPWatermark" -> WatermarkValues
      [] k = "rotate" -> {Num(90), Str(<<"a">>)}
      [] OTHER -> {Undef}

\* an object has each key once; Object.keys lists them in insertion order
EditEntries == UNION {[key : {k}, value : ValuesOf(k)] : k \in EditKeys}

EditMappings ==
    {m \in UNION {[1..n -> EditEntries] : n \in 0..MaxEdits} :
        \A a, b \in 1..Len(m) : a # b => m[a].key # m[b].key}

HasKey(entries, k) == \E j \in 1..Len(entries) : entries[j].key = k

Requests ==
    [originalImage : Images,
     edits : [defined : {FALSE}, entries : {<<>>}]
             \cup [defined : {TRUE}, entries : EditMappings],
     outputFormat : {"undefined", "png"}]

NoRequest ==
    [originalImage |-> <<>>, edits |-> [defined |-> FALSE, entries |-> <<>>],
     outputFormat |-> "undefined"]

Builds == {"image-handler.js", "part_000"}

(***************************************************************************)
(* The state.  Every variable but build and probe is a function of the     *)
(* request: the locals of its process / applyEdits / getOverlayImage /     *)
(* getBoundingBox activations.                                             *)
(***************************************************************************)
VARIABLES
    build,          \* which of the two copies of the file runs
    given,          \* the requests as their callers built them (never written)
    request,        \* the request object; request.edits is mutated in place
    pc,             \* the await the request is suspended at
    image,          \* the sharp handle of applyEdits: its queued operations
    metadata,       \* const metadata = await image.metadata()
    keys,           \* Object.keys(edits)
    values,         \* Object.values(edits)
    i,              \* the loop index, 1-based
    imageMetadata,  \* let imageMetadata of the overlayWith / TEPWatermark branch
    overlay,        \* what getOverlayImage has built so far
    response,       \* getBoundingBox: what detectFaces settled with
    calls,          \* every call made into a collaborator, in order
    bufferImage,    \* const bufferImage = await modifiedImage.toBuffer()
    result,         \* what process(request) settled with
    caughtErr,      \* the err of catch (err) in getOverlayImage / getBoundingBox
    probe           \* a pure function's arguments and result (function checks)

vars == <<build, given, request, pc, image, metadata, keys, values, i, imageMetadata,
          overlay, response, calls, bufferImage, result, caughtErr, probe>>

NoSize == [width |-> 0, height |-> 0]

NoOverlay == [size |-> NoSize, resize |-> DefaultResize, intensity |-> 0]

NoResponse == [settled |-> "no", FaceDetails |-> <<>>]

NoProbe == [fn |-> "none"]

NoError == NativeError(0, "", "")

Call(who, op, dir, arg) == [who |-> who, op |-> op, dir |-> dir, arg |-> arg]

Pending == [kind |-> "pending", body |-> <<>>, err |-> Thrown(0, "", "")]

Resolved(body) == [kind |-> "ok", body |-> body, err |-> Thrown(0, "", "")]

Rejected(err) == [kind |-> "error", body |-> <<>>, err |-> err]

(***************************************************************************)
(* Pieces of the handlers that are functions of their arguments.           *)
(***************************************************************************)
\* InjectResize with the default put in front of the caller's keys
InjectResizeFirst(entries) ==
    IF HasKey(entries, "resize") THEN entries
    ELSE <<[key |-> "resize", value |-> DefaultResize]>> \o entries

\* applyEdits lines 45-48: edits.resize = {fit: 'inside'} on an object without
\* that key adds the key after the keys the object already has
InjectResize(entries) ==
    IF HasKey(entries, "resize") THEN entries
    ELSE Append(entries, [key |-> "resize", value |-> DefaultResize])

\* LoopAdvance stepping over a key
LoopAdvanceSkipping(idx) == idx + 2

\* for (let i = 0; ...; i++)
LoopAdvance(idx) == idx + 1

\* /^(100|[1-9]?[0-9])$/.test(v): v is converted to its string first
zeroToHundred(v) ==
    CASE v.t = "num" -> v.n \in 0..100
      [] v.t = "str" ->
            \/ v.s = <<"1", "0", "0">>
            \/ Len(v.s) = 1 /\ IsDigit(v.s[1])
            \/ Len(v.s) = 2 /\ IsDigit(v.s[1]) /\ v.s[1] # "0" /\ IsDigit(v.s[2])
      [] OTHER -> FALSE

\* a value used as a number in width * wRatio / 100
ToNumber(v) == IF v.t = "num" THEN v.n ELSE DigitsValue(v.s, 0)

\* OverlayResize that constrains the height only when it constrains the width
OverlayResizeCoupled(wRatio, hRatio, sourceImageMetadata) ==
    [fit |-> "inside",
     width |-> IF zeroToHundred(wRatio)
               THEN Num(ParseIntNum(sourceImageMetadata.width * ToNumber(wRatio), 100))
               ELSE Undef,
     height |-> IF zeroToHundred(wRatio) /\ zeroToHundred(hRatio)
                THEN Num(ParseIntNum(sourceImageMetadata.height * ToNumber(hRatio), 100))
                ELSE Undef]

\* getOverlayImage lines 161-172: the resize options of the overlay
OverlayResize(wRatio, hRatio, sourceImageMetadata) ==
    [fit |-> "inside",
     width |-> IF zeroToHundred(wRatio)
               THEN Num(ParseIntNum(sourceImageMetadata.width * ToNumber(wRatio), 100))
               ELSE Undef,
     height |-> IF zeroToHundred(hRatio)
                THEN Num(ParseIntNum(sourceImageMetadata.height * ToNumber(hRatio), 100))
                ELSE Undef]

\* OverlayIntensity that takes an alpha it does not accept for 100
OverlayIntensityTransparent(alpha) ==
    LET a == IF zeroToHundred(alpha) THEN ParseIntNum(ToNumber(alpha), 1) ELSE 100
    IN  ((255 * (100 - a)) \div 100) % 256

\* the alpha values for which 255 * (1 - alpha / 100), an integer in exact
\* arithmetic, is just below it in double precision: 1 - 80 / 100 is
\* 0.19999999999999996 and the product 50.999999999999986
RoundedBelow == {80}

\* getOverlayImage lines 175-184: the fourth byte of the 1x1 alpha tile,
\* Buffer.from stores the number truncated to an unsigned byte,
\* Buffer.from([255, 255, 255, 255 * (1 - alpha / 100)])
OverlayIntensity(alpha) ==
    LET a == IF zeroToHundred(alpha) THEN ParseIntNum(ToNumber(alpha), 1) ELSE 0
        byte == ((255 * (100 - a)) \div 100) % 256
    IN  IF a \in RoundedBelow THEN byte - 1 ELSE byte

\* OverlayRejection that answers 500 whatever the collaborator's status code
OverlayRejectionInternal(err) == Thrown(500, err.code, err.message)

\* getOverlayImage lines 194-200: what the catch rejects with
OverlayRejection(err) ==
    Thrown(IF err.statusCode # 0 THEN err.statusCode ELSE 500, err.code, err.message)

\* getBoundingBox that does not tell a missing face from another failure
getBoundingBoxUnclassified(ok, FaceDetails, err, faceIndex) ==
    LET faceIdx == IF faceIndex.t # "undef" THEN faceIndex.n ELSE 0
        found == ok /\ faceIdx + 1 \in 1..Len(FaceDetails)
        caught == IF ok THEN BoundingBoxTypeError ELSE err
    IN  IF found
        THEN [ok |-> TRUE, BoundingBox |-> FaceDetails[faceIdx + 1],
              err |-> Thrown(0, "", "")]
        ELSE [ok |-> FALSE,
              BoundingBox |-> [Left |-> 0, Top |-> 0, Width |-> 0, Height |-> 0,
                               den |-> 1],
              err |-> Thrown(500, caught.code, caught.message)]

\* getBoundingBox lines 233-252, given what detectFaces settled with: ok says
\* whether it resolved, FaceDetails is its answer, err its error
getBoundingBox(ok, FaceDetails, err, faceIndex) ==
    LET faceIdx == IF faceIndex.t # "undef" THEN faceIndex.n ELSE 0
        found == ok /\ faceIdx + 1 \in 1..Len(FaceDetails)
        caught == IF ok THEN BoundingBoxTypeError ELSE err
    IN  IF found
        THEN [ok |-> TRUE, BoundingBox |-> FaceDetails[faceIdx + 1],
              err |-> Thrown(0, "", "")]
        ELSE [ok |-> FALSE,
              BoundingBox |-> [Left |-> 0, Top |-> 0, Width |-> 0, Height |-> 0,
                               den |-> 1],
              err |-> IF caught.message
                         = "Cannot read property 'BoundingBox' of undefined"
                      THEN Thrown(400, "SmartCrop::FaceIndexOutOfRange",
                                  "You have provided a FaceIndex value that exceeds the length of the zero-based detectedFaces array.")
                      ELSE Thrown(500, caught.code, caught.message)]

\* applyEdits lines 118-122
PaddingOutOfBounds ==
    Thrown(400, "SmartCrop::PaddingOutOfBounds",
           "The padding value you provided exceeds the boundaries of the original image.")

\* part_000 line 144: whether the watermark is composited
WatermarkFits(width, style) == width > 340 \/ (width > 150 /\ style = "cute")

\* Throw that records the rejection and lets the loop go on
ThrowAndContinue(r, e) ==
    /\ pc' = [pc EXCEPT ![r] = "loop"]
    /\ result' = [result EXCEPT ![r] = Rejected(e)]

(***************************************************************************)
(* The actions.  Throw(r, e): an exception leaves applyEdits and process,  *)
(* neither of which catches: the promise of process rejects with e.        *)
(***************************************************************************)
Throw(r, e) ==
    /\ pc' = [pc EXCEPT ![r] = "done"]
    /\ result' = [result EXCEPT ![r] = Rejected(e)]

Logged(r, cs) == calls' = [calls EXCEPT ![r] = @ \o cs]

AtDirective(r) == pc[r] = "loop" /\ i[r] <= Len(keys[r])

\* ProcessOriginal sending the original through the image handle
ProcessOriginalReencoded(r) ==
    /\ pc[r] = "start"
    /\ ~request[r].edits.defined
    /\ pc' = [pc EXCEPT ![r] = "done"]
    /\ \E bytes \in EncodedImages :
          result' = [result EXCEPT ![r] = Resolved(Base64(bytes))]
    /\ Logged(r, <<Call("sharp", "open", 0, request[r].originalImage),
                   Call("image", "toBuffer", 0, <<>>)>>)
    /\ UNCHANGED <<build, given, caughtErr, response, request, image, metadata, keys, values, i,
                   imageMetadata, overlay, bufferImage, probe>>

\* process lines 33-35: no edits
ProcessOriginal(r) ==
    /\ pc[r] = "start"
    /\ ~request[r].edits.defined
    /\ pc' = [pc EXCEPT ![r] = "done"]
    /\ result' = [result EXCEPT ![r] = Resolved(Base64(request[r].originalImage))]
    /\ UNCHANGED <<build, given, caughtErr, response, request, image, metadata, keys, values, i,
                   imageMetadata, overlay, calls, bufferImage, probe>>

\* process line 27, applyEdits lines 45-51, up to await image.metadata()
ApplyEditsCall(r) ==
    /\ pc[r] = "start"
    /\ request[r].edits.defined
    /\ request' = [request EXCEPT ![r].edits.entries = InjectResize(@)]
    /\ image' = [image EXCEPT ![r] = <<>>]
    /\ Logged(r, <<Call("sharp", "open", 0, request[r].originalImage),
                   Call("image", "metadata", 0, <<>>)>>)
    /\ pc' = [pc EXCEPT ![r] = "metadata"]
    /\ UNCHANGED <<build, given, caughtErr, response, metadata, keys, values, i, imageMetadata, overlay,
                   bufferImage, result, probe>>

\* MetadataResolved keeping metadata in one place for all the requests
MetadataResolvedShared(r) ==
    /\ pc[r] = "metadata"
    /\ IsImage(request[r].originalImage)
    /\ metadata' = [q \in Reqs |-> ImageSize(request[r].originalImage)]
    /\ keys' = [keys EXCEPT ![r] =
                    [j \in 1..Len(request[r].edits.entries) |->
                        request[r].edits.entries[j].key]]
    /\ values' = [values EXCEPT ![r] =
                    [j \in 1..Len(request[r].edits.entries) |->
                        request[r].edits.entries[j].value]]
    /\ i' = [i EXCEPT ![r] = 1]
    /\ pc' = [pc EXCEPT ![r] = "loop"]
    /\ UNCHANGED <<build, given, caughtErr, response, request, image, imageMetadata,
                   overlay, calls, bufferImage, result, probe>>

\* applyEdits lines 51-53
MetadataResolved(r) ==
    /\ pc[r] = "metadata"
    /\ IsImage(request[r].originalImage)
    /\ metadata' = [metadata EXCEPT ![r] = ImageSize(request[r].originalImage)]
    /\ keys' = [keys EXCEPT ![r] =
                    [j \in 1..Len(request[r].edits.entries) |->
                        request[r].edits.entries[j].key]]
    /\ values' = [values EXCEPT ![r] =
                    [j \in 1..Len(request[r].edits.entries) |->
                        request[r].edits.entries[j].value]]
    /\ i' = [i EXCEPT ![r] = 1]
    /\ pc' = [pc EXCEPT ![r] = "loop"]
    /\ UNCHANGED <<build, given, caughtErr, response, request, image, imageMetadata, overlay, calls,
                   bufferImage, result, probe>>

MetadataRejected(r) ==
    /\ pc[r] = "metadata"
    /\ ~IsImage(request[r].originalImage)
    /\ Throw(r, UnsupportedImageError)
    /\ UNCHANGED <<build, given, caughtErr, response, request, image, metadata, keys, values, i,
                   imageMetadata, overlay, calls, bufferImage, probe>>

\* image[key](value), line 142: rotate wants a number for its angle and throws
\* at once when it gets something else; the other operations take what the
\* requests of this model give them
Accepts(op, value) == op = "rotate" => value.t = "num"

\* PassThrough calling the operation twice
PassThroughTwice(r) ==
    /\ AtDirective(r)
    /\ keys[r][i[r]] \notin {"overlayWith", "smartCrop", "TEPWatermark"}
    /\ keys[r][i[r]] \in HandleOperations
    /\ Accepts(keys[r][i[r]], values[r][i[r]])
    /\ image' = [image EXCEPT ![r] =
                    Append(@, [op |-> keys[r][i[r]], arg |-> values[r][i[r]]])]
    /\ Logged(r, <<Call("image", keys[r][i[r]], i[r], values[r][i[r]]),
                   Call("image", keys[r][i[r]], i[r], values[r][i[r]])>>)
    /\ i' = [i EXCEPT ![r] = LoopAdvance(@)]
    /\ UNCHANGED <<build, given, caughtErr, response, request, pc, metadata, keys, values, imageMetadata,
                   overlay, bufferImage, result, probe>>

\* applyEdits lines 141-143: image[key](value), the operation exists
PassThrough(r) ==
    /\ AtDirective(r)
    /\ keys[r][i[r]] \notin {"overlayWith", "smartCrop", "TEPWatermark"}
    /\ keys[r][i[r]] \in HandleOperations
    /\ Accepts(keys[r][i[r]], values[r][i[r]])
    /\ image' = [image EXCEPT ![r] =
                    Append(@, [op |-> keys[r][i[r]], arg |-> values[r][i[r]]])]
    /\ Logged(r, <<Call("image", keys[r][i[r]], i[r], values[r][i[r]])>>)
    /\ i' = [i EXCEPT ![r] = LoopAdvance(@)]
    /\ UNCHANGED <<build, given, caughtErr, response, request, pc, metadata, keys, values, imageMetadata,
                   overlay, bufferImage, result, probe>>

\* PassThroughThrows wrapping what was thrown
PassThroughThrowsWrapped(r) ==
    /\ AtDirective(r)
    /\ keys[r][i[r]] \notin {"overlayWith", "smartCrop", "TEPWatermark"}
    /\ IF keys[r][i[r]] \notin HandleOperations
       THEN /\ Throw(r, Thrown(500, "PassThrough::Error", "is not a function"))
            /\ UNCHANGED calls
       ELSE /\ ~Accepts(keys[r][i[r]], values[r][i[r]])
            /\ Throw(r, Thrown(500, "PassThrough::Error", "Invalid parameters"))
            /\ Logged(r, <<Call("image", keys[r][i[r]], i[r], values[r][i[r]])>>)
    /\ UNCHANGED <<build, given, caughtErr, response, request, image, metadata, keys, values, i,
                   imageMetadata, overlay, bufferImage, probe>>

\* applyEdits lines 141-143: image[key] is undefined, or the operation throws
\* on its parameters; nothing around the call catches
PassThroughThrows(r) ==
    /\ AtDirective(r)
    /\ keys[r][i[r]] \notin {"overlayWith", "smartCrop", "TEPWatermark"}
    /\ IF keys[r][i[r]] \notin HandleOperations
       THEN /\ Throw(r, NotAFunctionTypeError)
            /\ UNCHANGED calls
       ELSE /\ ~Accepts(keys[r][i[r]], values[r][i[r]])
            /\ Throw(r, InvalidParametersError)
            /\ Logged(r, <<Call("image", keys[r][i[r]], i[r], values[r][i[r]])>>)
    /\ UNCHANGED <<build, given, caughtErr, response, request, image, metadata, keys, values, i,
                   imageMetadata, overlay, bufferImage, probe>>

\* applyEdits lines 60-62, 112 and 125-127: the three branches that start with
\* await image.toBuffer() (edits.resize is an object, which is truthy)
ImageToBufferCall(r) ==
    /\ AtDirective(r)
    /\ keys[r][i[r]] \in {"overlayWith", "smartCrop", "TEPWatermark"}
    /\ IF keys[r][i[r]] = "smartCrop" \/ HasKey(request[r].edits.entries, "resize")
       THEN /\ Logged(r, <<Call("image", "toBuffer", i[r], image[r])>>)
            /\ pc' = [pc EXCEPT ![r] = "imageBuffer"]
            /\ UNCHANGED imageMetadata
       ELSE /\ imageMetadata' = [imageMetadata EXCEPT ![r] = metadata[r]]
            /\ pc' = [pc EXCEPT ![r] = "resizedMetadata"]
            /\ UNCHANGED calls
    /\ UNCHANGED <<build, given, caughtErr, response, request, image, metadata, keys, values, i, overlay,
                   bufferImage, result, probe>>

\* image.toBuffer() rejects: the queue holds an extract that leaves the image
ImageBufferRejected(r) ==
    /\ pc[r] = "imageBuffer"
    /\ RenderFails(metadata[r], image[r])
    /\ Throw(r, BadExtractAreaError)
    /\ UNCHANGED <<build, given, caughtErr, response, request, image, metadata, keys, values, i,
                   imageMetadata, overlay, calls, bufferImage, probe>>

\* applyEdits lines 63 and 128: sharp(imageBuffer).resize({edits: ...}).metadata();
\* line 113: getBoundingBox up to await detectFaces
ImageBufferResolved(r) ==
    /\ pc[r] = "imageBuffer"
    /\ ~RenderFails(metadata[r], image[r])
    /\ IF keys[r][i[r]] = "smartCrop"
       THEN /\ Logged(r, <<Call("rekognition", "detectFaces", i[r],
                               RenderedSize(metadata[r], image[r]))>>)
            /\ pc' = [pc EXCEPT ![r] = "detectFaces"]
       ELSE /\ Logged(r, <<Call("sharp", "metadata", i[r],
                               RenderedSize(metadata[r], image[r]))>>)
            /\ pc' = [pc EXCEPT ![r] = "resizedMetadata"]
    /\ UNCHANGED <<build, given, caughtErr, response, request, image, metadata, keys, values, i,
                   imageMetadata, overlay, bufferImage, result, probe>>

\* metadata() answers with the size of its input, imageBuffer: the resize
\* queued on that second handle names neither width nor height
ResizedMetadata(r) ==
    IF HasKey(request[r].edits.entries, "resize")
    THEN RenderedSize(metadata[r], image[r])
    ELSE metadata[r]

\* applyEdits lines 66-67 (and 130-132 of image-handler.js): getOverlayImage
\* lines 156-160, up to await s3.getObject
GetOverlayImageCall(r) ==
    /\ pc[r] = "resizedMetadata"
    /\ \/ keys[r][i[r]] = "overlayWith"
       \/ keys[r][i[r]] = "TEPWatermark" /\ build = "image-handler.js"
    /\ imageMetadata' = [imageMetadata EXCEPT ![r] = ResizedMetadata(r)]
    /\ Logged(r, <<Call("s3", "getObject", i[r],
                        [Bucket |-> values[r][i[r]].bucket,
                         Key |-> values[r][i[r]].key])>>)
    /\ pc' = [pc EXCEPT ![r] = "getObject"]
    /\ UNCHANGED <<build, given, caughtErr, response, request, image, metadata, keys, values, i, overlay,
                   bufferImage, result, probe>>

\* WatermarkLayer leaving the caller's position out
WatermarkLayerUnplaced(options) ==
    [options |-> [options EXCEPT !.left = Undef, !.top = Undef],
     input |-> "watermark"]

\* line 139 (part_000 line 145): const params = [{ ...options, input: watermark }]
WatermarkLayer(options) == [options |-> options, input |-> "watermark"]

\* part_000 lines 125-147: the watermark is composited when it fits
WatermarkComposite(r) ==
    /\ pc[r] = "resizedMetadata"
    /\ keys[r][i[r]] = "TEPWatermark" /\ build = "part_000"
    /\ imageMetadata' = [imageMetadata EXCEPT ![r] = ResizedMetadata(r)]
    /\ LET options == values[r][i[r]].options
           params == WatermarkLayer(options)
       IN  IF WatermarkFits(ResizedMetadata(r).width, options.style)
           THEN /\ image' = [image EXCEPT ![r] =
                                Append(@, [op |-> "composite", arg |-> params])]
                /\ Logged(r, <<Call("image", "composite", i[r], params)>>)
           ELSE UNCHANGED <<image, calls>>
    /\ i' = [i EXCEPT ![r] = LoopAdvance(@)]
    /\ pc' = [pc EXCEPT ![r] = "loop"]
    /\ UNCHANGED <<build, given, caughtErr, response, request, metadata, keys, values, overlay,
                   bufferImage, result, probe>>

\* getOverlayImage lines 160-192: the object arrives; up to await ...toBuffer()
GetObjectResolved(r, size) ==
    /\ pc[r] = "getObject"
    /\ values[r][i[r]].bucket # "undefined" /\ values[r][i[r]].key # "undefined"
    /\ LET v == values[r][i[r]]
           o == [size |-> size,
                 resize |-> OverlayResize(v.wRatio, v.hRatio, imageMetadata[r]),
                 intensity |-> OverlayIntensity(v.alpha)]
       IN  /\ overlay' = [overlay EXCEPT ![r] = o]
           /\ Logged(r, <<Call("sharp", "overlay.toBuffer", i[r], o)>>)
    /\ pc' = [pc EXCEPT ![r] = "convert"]
    /\ UNCHANGED <<build, given, caughtErr, response, request, image, metadata, keys, values, i,
                   imageMetadata, bufferImage, result, probe>>

\* GetObjectRejected that asks S3 once more before it gives up
GetObjectRejectedRetrying(r, err) ==
    /\ pc[r] = "getObject"
    /\ IF values[r][i[r]].bucket = "undefined" \/ values[r][i[r]].key = "undefined"
       THEN err = MissingParameterError
       ELSE err \in ServiceErrors
    /\ caughtErr' = [caughtErr EXCEPT ![r] = err]
    /\ IF calls[r][Len(calls[r]) - 1].op # "getObject"
       THEN /\ Logged(r, <<Call("s3", "getObject", i[r],
                               [Bucket |-> values[r][i[r]].bucket,
                                Key |-> values[r][i[r]].key])>>)
            /\ UNCHANGED <<pc, result>>
       ELSE /\ Throw(r, OverlayRejection(err))
            /\ UNCHANGED calls
    /\ UNCHANGED <<build, given, response, request, image, metadata, keys, values, i,
                   imageMetadata, overlay, bufferImage, probe>>

\* getOverlayImage lines 194-200: getObject rejects
GetObjectRejected(r, err) ==
    /\ pc[r] = "getObject"
    /\ IF values[r][i[r]].bucket = "undefined" \/ values[r][i[r]].key = "undefined"
       THEN err = MissingParameterError
       ELSE err \in ServiceErrors
    /\ Throw(r, OverlayRejection(err))
    /\ caughtErr' = [caughtErr EXCEPT ![r] = err]
    /\ UNCHANGED <<build, given, response, request, image, metadata, keys, values, i,
                   imageMetadata, overlay, calls, bufferImage, probe>>

\* getOverlayImage lines 194-200: the object is no image, toBuffer rejects
ConvertRejected(r) ==
    /\ pc[r] = "convert"
    /\ Throw(r, OverlayRejection(UnsupportedImageError))
    /\ caughtErr' = [caughtErr EXCEPT ![r] = UnsupportedImageError]
    /\ UNCHANGED <<build, given, response, request, image, metadata, keys, values, i,
                   imageMetadata, overlay, calls, bufferImage, probe>>

\* getOverlayImage line 193, applyEdits line 68: await sharp(overlay).metadata()
ConvertResolved(r) ==
    /\ pc[r] = "convert"
    /\ keys[r][i[r]] = "overlayWith"
    /\ overlay' = [overlay EXCEPT ![r].size = ResizedSize(@, overlay[r].resize)]
    /\ Logged(r, <<Call("sharp", "overlay.metadata", i[r], <<>>)>>)
    /\ pc' = [pc EXCEPT ![r] = "overlayMetadata"]
    /\ UNCHANGED <<build, given, caughtErr, response, request, image, metadata, keys, values, i,
                   imageMetadata, bufferImage, result, probe>>

\* image-handler.js lines 132-140: the overlay is fetched and not used, the
\* watermark is composited whatever the size of the image
WatermarkAfterOverlay(r) ==
    /\ pc[r] = "convert"
    /\ keys[r][i[r]] = "TEPWatermark"
    /\ LET params == WatermarkLayer(values[r][i[r]].options)
       IN  /\ image' = [image EXCEPT ![r] =
                           Append(@, [op |-> "composite", arg |-> params])]
           /\ Logged(r, <<Call("image", "composite", i[r], params)>>)
    /\ i' = [i EXCEPT ![r] = LoopAdvance(@)]
    /\ pc' = [pc EXCEPT ![r] = "loop"]
    /\ UNCHANGED <<build, given, caughtErr, response, request, metadata, keys, values, imageMetadata,
                   overlay, bufferImage, result, probe>>

\* a placement value the code calls .endsWith on without it being a string
NotAString(v) == Truthy(v) /\ v.t # "str"

\* PlacedOptions measuring the top along the width
PlacedOptionsAlongWidth(options, base, overlayMetadata) ==
    LET left == IF options.present /\ Truthy(options.left)
                   /\ ~NotAString(options.left)
                THEN ResolveAxis(options.left, base.width, overlayMetadata.width)
                ELSE options.left
        top == IF options.present /\ Truthy(options.top)
                  /\ ~NotAString(options.left) /\ ~NotAString(options.top)
               THEN ResolveAxis(options.top, base.width, overlayMetadata.width)
               ELSE options.top
    IN  [present |-> options.present, left |-> left, top |-> top]

\* applyEdits lines 70-106: options.left and options.top are overwritten in
\* the caller's object; left is stored before top is looked at
PlacedOptions(options, base, overlayMetadata) ==
    LET left == IF options.present /\ Truthy(options.left)
                   /\ ~NotAString(options.left)
                THEN ResolveAxis(options.left, base.width, overlayMetadata.width)
                ELSE options.left
        top == IF options.present /\ Truthy(options.top)
                  /\ ~NotAString(options.left) /\ ~NotAString(options.top)
               THEN ResolveAxis(options.top, base.height, overlayMetadata.height)
               ELSE options.top
    IN  [present |-> options.present, left |-> left, top |-> top]

\* applyEdits lines 68-109: the overlay's metadata arrives
OverlayComposite(r) ==
    /\ pc[r] = "overlayMetadata"
    /\ LET options == values[r][i[r]].options
           placed == PlacedOptions(options, imageMetadata[r], overlay[r].size)
           params == [options |-> placed, input |-> overlay[r]]
       IN  /\ values' = [values EXCEPT ![r][i[r]].options = placed]
           /\ request' = [request EXCEPT
                             ![r].edits.entries[i[r]].value.options = placed]
           /\ IF options.present
                 /\ (NotAString(options.left) \/ NotAString(options.top))
              THEN /\ Throw(r, NotAFunctionTypeError)
                   /\ UNCHANGED <<image, calls, i>>
              ELSE /\ image' = [image EXCEPT ![r] =
                                   Append(@, [op |-> "composite", arg |-> params])]
                   /\ Logged(r, <<Call("image", "composite", i[r], params)>>)
                   /\ i' = [i EXCEPT ![r] = LoopAdvance(@)]
                   /\ pc' = [pc EXCEPT ![r] = "loop"]
                   /\ UNCHANGED result
    /\ UNCHANGED <<build, given, caughtErr, response, metadata, keys, imageMetadata, overlay, bufferImage,
                   probe>>

\* applyEdits lines 113-123: detectFaces resolves; getBoundingBox, getCropArea
\* and image.extract follow without another await
DetectFacesResolved(r, FaceDetails) ==
    /\ pc[r] = "detectFaces"
    /\ LET options == values[r][i[r]]
           found == getBoundingBox(TRUE, FaceDetails, Thrown(0, "", ""),
                                   options.faceIndex)
           cropArea == getCropArea(found.BoundingBox, options, metadata[r])
       IN  IF ~found.ok
           THEN /\ Throw(r, found.err)
                /\ UNCHANGED <<image, calls, i>>
           ELSE IF ExtractThrows(cropArea)
           THEN /\ Throw(r, PaddingOutOfBounds)
                /\ Logged(r, <<Call("image", "extract", i[r], cropArea)>>)
                /\ UNCHANGED <<image, i>>
           ELSE /\ image' = [image EXCEPT ![r] =
                                Append(@, [op |-> "extract", arg |-> cropArea])]
                /\ Logged(r, <<Call("image", "extract", i[r], cropArea)>>)
                /\ i' = [i EXCEPT ![r] = LoopAdvance(@)]
                /\ pc' = [pc EXCEPT ![r] = "loop"]
                /\ UNCHANGED result
    /\ response' = [response EXCEPT ![r] =
                        [settled |-> "resolved", FaceDetails |-> FaceDetails]]
    /\ caughtErr' = [caughtErr EXCEPT ![r] =
                        IF getBoundingBox(TRUE, FaceDetails, NoError,
                                          values[r][i[r]].faceIndex).ok
                        THEN @ ELSE BoundingBoxTypeError]
    /\ UNCHANGED <<build, given, request, metadata, keys, values, imageMetadata,
                   overlay, bufferImage, probe>>

\* getBoundingBox lines 237-251: detectFaces rejects
DetectFacesRejected(r, err) ==
    /\ pc[r] = "detectFaces"
    /\ Throw(r, getBoundingBox(FALSE, <<>>, err, values[r][i[r]].faceIndex).err)
    /\ response' = [response EXCEPT ![r] =
                        [settled |-> "rejected", FaceDetails |-> <<>>]]
    /\ caughtErr' = [caughtErr EXCEPT ![r] = err]
    /\ UNCHANGED <<build, given, request, image, metadata, keys, values, i,
                   imageMetadata, overlay, calls, bufferImage, probe>>

\* ProcessToBufferCall that leaves the format as it is
ProcessToBufferCallUnconverted(r) ==
    /\ pc[r] = "loop"
    /\ i[r] > Len(keys[r])
    /\ Logged(r, <<Call("image", "toBuffer", 0, image[r])>>)
    /\ pc' = [pc EXCEPT ![r] = "toBuffer"]
    /\ UNCHANGED <<build, given, caughtErr, response, request, image, metadata, keys,
                   values, i, imageMetadata, overlay, bufferImage, result, probe>>

\* applyEdits line 146, process lines 28-31: the loop is over, applyEdits
\* returns the handle; up to await modifiedImage.toBuffer()
ProcessToBufferCall(r) ==
    /\ pc[r] = "loop"
    /\ i[r] > Len(keys[r])
    /\ IF request[r].outputFormat # "undefined"
       THEN /\ image' = [image EXCEPT ![r] =
                            Append(@, [op |-> "toFormat",
                                       arg |-> request[r].outputFormat])]
            /\ Logged(r, <<Call("image", "toFormat", 0, request[r].outputFormat),
                           Call("image", "toBuffer", 0,
                                Append(image[r],
                                       [op |-> "toFormat",
                                        arg |-> request[r].outputFormat]))>>)
       ELSE /\ Logged(r, <<Call("image", "toBuffer", 0, image[r])>>)
            /\ UNCHANGED image
    /\ pc' = [pc EXCEPT ![r] = "toBuffer"]
    /\ UNCHANGED <<build, given, caughtErr, response, request, metadata, keys, values, i, imageMetadata,
                   overlay, bufferImage, result, probe>>

\* ProcessResolved answering with the bytes it was given
ProcessResolvedOriginal(r, bytes) ==
    /\ pc[r] = "toBuffer"
    /\ ~RenderFails(metadata[r], image[r])
    /\ bufferImage' = [bufferImage EXCEPT ![r] = bytes]
    /\ result' = [result EXCEPT ![r] = Resolved(Base64(request[r].originalImage))]
    /\ pc' = [pc EXCEPT ![r] = "done"]
    /\ UNCHANGED <<build, given, caughtErr, response, request, image, metadata, keys, values, i,
                   imageMetadata, overlay, calls, probe>>

\* process lines 31-32
ProcessResolved(r, bytes) ==
    /\ pc[r] = "toBuffer"
    /\ ~RenderFails(metadata[r], image[r])
    /\ bufferImage' = [bufferImage EXCEPT ![r] = bytes]
    /\ result' = [result EXCEPT ![r] = Resolved(Base64(bytes))]
    /\ pc' = [pc EXCEPT ![r] = "done"]
    /\ UNCHANGED <<build, given, caughtErr, response, request, image, metadata, keys, values, i,
                   imageMetadata, overlay, calls, probe>>

\* process line 31: toBuffer rejects
ProcessRejected(r) ==
    /\ pc[r] = "toBuffer"
    /\ RenderFails(metadata[r], image[r])
    /\ Throw(r, BadExtractAreaError)
    /\ UNCHANGED <<build, given, caughtErr, response, request, image, metadata, keys, values, i,
                   imageMetadata, overlay, calls, bufferImage, probe>>

(***************************************************************************)
(* The specification of one request.                                       *)
(***************************************************************************)
Idle(reqs) ==
    /\ request = reqs
    /\ given = reqs
    /\ image = [r \in Reqs |-> <<>>]
    /\ metadata = [r \in Reqs |-> NoSize]
    /\ keys = [r \in Reqs |-> <<>>]
    /\ values = [r \in Reqs |-> <<>>]
    /\ i = [r \in Reqs |-> 0]
    /\ imageMetadata = [r \in Reqs |-> NoSize]
    /\ overlay = [r \in Reqs |-> NoOverlay]
    /\ response = [r \in Reqs |-> NoResponse]
    /\ calls = [r \in Reqs |-> <<>>]
    /\ bufferImage = [r \in Reqs |-> <<>>]
    /\ result = [r \in Reqs |-> Pending]
    /\ caughtErr = [r \in Reqs |-> NoError]

Init ==
    /\ build \in Builds
    /\ \E q \in Requests : Idle([r \in Reqs |-> IF r = 1 THEN q ELSE NoRequest])
    /\ pc = [r \in Reqs |-> IF r = 1 THEN "start" ELSE "absent"]
    /\ probe = NoProbe

Step(r) ==
    \/ ProcessOriginal(r)
    \/ ApplyEditsCall(r)
    \/ MetadataResolved(r)
    \/ MetadataRejected(r)
    \/ PassThrough(r)
    \/ PassThroughThrows(r)
    \/ ImageToBufferCall(r)
    \/ ImageBufferRejected(r)
    \/ ImageBufferResolved(r)
    \/ GetOverlayImageCall(r)
    \/ WatermarkComposite(r)
    \/ \E size \in OverlaySizes : GetObjectResolved(r, size)
    \/ \E err \in ServiceErrors \cup {MissingParameterError} : GetObjectRejected(r, err)
    \/ ConvertRejected(r)
    \/ ConvertResolved(r)
    \/ WatermarkAfterOverlay(r)
    \/ OverlayComposite(r)
    \/ \E FaceDetails \in FaceLists : DetectFacesResolved(r, FaceDetails)
    \/ \E err \in DetectorErrors : DetectFacesRejected(r, err)
    \/ ProcessToBufferCall(r)
    \/ \E bytes \in EncodedImages : ProcessResolved(r, bytes)
    \/ ProcessRejected(r)

Next == \E r \in Reqs : Step(r)

Spec == Init /\ [][Next]_vars

(***************************************************************************)
(* The specification of two requests in progress at once: process is       *)
(* called for the second while the first is suspended at an await, and the *)
(* event loop resumes either in any order.                                 *)
(***************************************************************************)
\* the requests the two are drawn from
PairRequests ==
    {[originalImage |-> <<255, 216, 255>>,
      edits |-> [defined |-> FALSE, entries |-> <<>>],
      outputFormat |-> "png"],
     [originalImage |-> <<0, 1, 2, 3>>,
      edits |-> [defined |-> TRUE, entries |-> <<>>],
      outputFormat |-> "undefined"],
     [originalImage |-> <<71>>,
      edits |-> [defined |-> TRUE,
                 entries |->
                    <<[key |-> "smartCrop",
                       value |-> [faceIndex |-> Undef, padding |-> Undef]],
                      [key |-> "TEPWatermark",
                       value |-> [bucket |-> "b", key |-> "b", wRatio |-> Undef,
                                  hRatio |-> Undef, alpha |-> Undef,
                                  options |-> [name |-> "n", style |-> "cute",
                                               left |-> Undef, top |-> Undef]]]>>],
      outputFormat |-> "undefined"],
     [originalImage |-> <<255, 216, 255>>,
      edits |-> [defined |-> TRUE,
                 entries |->
                    <<[key |-> "overlayWith",
                       value |-> [bucket |-> "b", key |-> "k", wRatio |-> Num(10),
                                  hRatio |-> Undef, alpha |-> Undef,
                                  options |-> [present |-> TRUE,
                                               left |-> Str(<<"1", "0", "p">>),
                                               top |-> Str(<<"-", "1", "0", "p">>)]]],
                      [key |-> "smartCrop",
                       value |-> [faceIndex |-> Undef, padding |-> Undef]]>>],
      outputFormat |-> "undefined"],
     [originalImage |-> <<137, 80>>,
      edits |-> [defined |-> TRUE,
                 entries |-> <<[key |-> "notAnOperation", value |-> Undef]>>],
      outputFormat |-> "png"]}

InitPair ==
    /\ build \in Builds
    /\ \E a, b \in PairRequests : Idle([r \in Reqs |-> IF r = 1 THEN a ELSE b])
    /\ pc = [r \in Reqs |-> "start"]
    /\ probe = NoProbe

SpecPair == InitPair /\ [][Next]_vars

(***************************************************************************)
(* The caller that keeps its request object and hands it to process a      *)
(* second time once the first answer is there: same original image, the    *)
(* edits object as the first call left it.  The call log goes on after a   *)
(* mark, so that the two calls can be compared.                            *)
(***************************************************************************)
SecondCall == Call("caller", "process", 0, <<>>)

CalledAgain(r) == \E c \in 1..Len(calls[r]) : calls[r][c].who = SecondCall.who

\* process lines 23-36, entered again with the request of a call that resolved
ProcessAgain(r) ==
    /\ pc[r] = "done" /\ result[r].kind = "ok"
    /\ request[r].edits.defined
    /\ ~CalledAgain(r)
    /\ pc' = [pc EXCEPT ![r] = "start"]
    /\ Logged(r, <<SecondCall>>)
    /\ image' = [image EXCEPT ![r] = <<>>]
    /\ metadata' = [metadata EXCEPT ![r] = NoSize]
    /\ keys' = [keys EXCEPT ![r] = <<>>]
    /\ values' = [values EXCEPT ![r] = <<>>]
    /\ i' = [i EXCEPT ![r] = 0]
    /\ imageMetadata' = [imageMetadata EXCEPT ![r] = NoSize]
    /\ overlay' = [overlay EXCEPT ![r] = NoOverlay]
    /\ response' = [response EXCEPT ![r] = NoResponse]
    /\ bufferImage' = [bufferImage EXCEPT ![r] = <<>>]
    /\ result' = [result EXCEPT ![r] = Pending]
    /\ UNCHANGED <<build, given, caughtErr, request, probe>>

NextAgain == Next \/ \E r \in Reqs : ProcessAgain(r)

SpecAgain == Init /\ [][NextAgain]_vars

(***************************************************************************)
(* The specification of the functions: getCropArea and the placement block *)
(* of applyEdits, each applied once to arguments drawn from the sets       *)
(* below.  No request runs.                                                *)
(***************************************************************************)
\* placement strings, each with what it says: percent or pixels, and how many
PlacementCases ==
    {[text |-> <<"1", "0", "p">>, percent |-> TRUE, n |-> 10],
     [text |-> <<"-", "1", "0", "p">>, percent |-> TRUE, n |-> 0 - 10],
     [text |-> <<"3", "3", "p">>, percent |-> TRUE, n |-> 33],
     [text |-> <<"-", "3", "3", "p">>, percent |-> TRUE, n |-> 0 - 33],
     [text |-> <<"0", "p">>, percent |-> TRUE, n |-> 0],
     [text |-> <<"1", "0", "0", "p">>, percent |-> TRUE, n |-> 100],
     [text |-> <<"-", "1", "0", "0", "p">>, percent |-> TRUE, n |-> 0 - 100],
     [text |-> <<"3", "0">>, percent |-> FALSE, n |-> 30],
     [text |-> <<"-", "3", "0">>, percent |-> FALSE, n |-> 0 - 30],
     [text |-> <<"0">>, percent |-> FALSE, n |-> 0],
     [text |-> <<"-", "2", "5", "0">>, percent |-> FALSE, n |-> 0 - 250]}

PlacementValues == {Str(c.text) : c \in PlacementCases} \cup {Undef}

ProbeBaseSizes ==
    {[width |-> 200, height |-> 100], [width |-> 333, height |-> 77]}

ProbeOverlaySizes ==
    {[width |-> 20, height |-> 10], [width |-> 45, height |-> 90]}

PlacementProbes ==
    [fn : {"placement"}, done : {FALSE},
     options : [present : {TRUE}, left : PlacementValues, top : PlacementValues],
     base : ProbeBaseSizes, overlayMetadata : ProbeOverlaySizes,
     out : {[present |-> FALSE, left |-> Undef, top |-> Undef]}]

ProbeBoxes ==
    {[Left |-> 1, Top |-> 2, Width |-> 5, Height |-> 4, den |-> 10],
     [Left |-> 1, Top |-> 1, Width |-> 2, Height |-> 2, den |-> 4],
     [Left |-> 1, Top |-> 3, Width |-> 5, Height |-> 3, den |-> 8],
     [Left |-> 0, Top |-> 0, Width |-> 8, Height |-> 8, den |-> 8]}

\* options.padding, each with the number it stands for, num/den
PaddingCases ==
    {[value |-> Undef, num |-> 0, den |-> 1],
     [value |-> Num(0), num |-> 0, den |-> 1],
     [value |-> Num(5), num |-> 5, den |-> 1],
     [value |-> Num(30), num |-> 30, den |-> 1],
     [value |-> Num(0 - 3), num |-> 0 - 3, den |-> 1],
     [value |-> Str(<<"2", ".", "5">>), num |-> 5, den |-> 2],
     [value |-> Str(<<"4", "0", ".", "2", "5">>), num |-> 161, den |-> 4],
     [value |-> Str(<<"1", "2">>), num |-> 12, den |-> 1]}

ProbePaddings == {c.value : c \in PaddingCases}

ProbeImageSizes ==
    {[width |-> 300, height |-> 200], [width |-> 100, height |-> 50],
     [width |-> 33, height |-> 77]}

NoCropArea ==
    [left |-> [nan |-> TRUE, n |-> 0], top |-> [nan |-> TRUE, n |-> 0],
     width |-> [nan |-> TRUE, n |-> 0], height |-> [nan |-> TRUE, n |-> 0]]

CropAreaProbes ==
    [fn : {"getCropArea"}, done : {FALSE}, boundingBox : ProbeBoxes,
     options : [faceIndex : {Undef}, padding : ProbePaddings],
     metadata : ProbeImageSizes, out : {NoCropArea}]

\* a face at the left edge of a small image: Left = 2e-8, Width = 0.99999998,
\* Height = 0.2; Left * 33 is 6.6e-7
EdgeBoxes ==
    {[Left |-> 1, Top |-> 0, Width |-> 49999999, Height |-> 10000000,
      den |-> 50000000]}

EdgeCropProbes ==
    [fn : {"getCropArea"}, done : {FALSE}, boundingBox : EdgeBoxes,
     options : [faceIndex : {Undef}, padding : {Undef, Num(0)}],
     metadata : {[width |-> 33, height |-> 77]}, out : {NoCropArea}]

\* alpha, wRatio and hRatio values, each with what it says: whether it is an
\* integer of 0..100 in decimal notation, and which
RatioCases ==
    {[value |-> Undef, inRange |-> FALSE, n |-> 0],
     [value |-> Num(0), inRange |-> TRUE, n |-> 0],
     [value |-> Num(1), inRange |-> TRUE, n |-> 1],
     [value |-> Num(10), inRange |-> TRUE, n |-> 10],
     [value |-> Num(33), inRange |-> TRUE, n |-> 33],
     [value |-> Num(50), inRange |-> TRUE, n |-> 50],
     [value |-> Num(80), inRange |-> TRUE, n |-> 80],
     [value |-> Num(100), inRange |-> TRUE, n |-> 100],
     [value |-> Num(101), inRange |-> FALSE, n |-> 101],
     [value |-> Num(150), inRange |-> FALSE, n |-> 150],
     [value |-> Num(0 - 10), inRange |-> FALSE, n |-> 0 - 10],
     [value |-> Str(<<"5", "0">>), inRange |-> TRUE, n |-> 50],
     [value |-> Str(<<"1", "0", "0">>), inRange |-> TRUE, n |-> 100],
     [value |-> Str(<<"2", "0", "0">>), inRange |-> FALSE, n |-> 200],
     [value |-> Str(<<"5", "p">>), inRange |-> FALSE, n |-> 0]}

ProbeRatios == {c.value : c \in RatioCases}

IntensityProbes == [fn : {"intensity"}, done : {FALSE}, alpha : ProbeRatios, out : {0}]

OverlayResizeProbes ==
    [fn : {"resize"}, done : {FALSE}, wRatio : ProbeRatios, hRatio : ProbeRatios,
     sourceImageMetadata : ProbeBaseSizes, out : {DefaultResize}]

InitFunctions ==
    /\ build \in Builds
    /\ Idle([r \in Reqs |-> NoRequest])
    /\ pc = [r \in Reqs |-> "absent"]
    /\ probe \in PlacementProbes \cup CropAreaProbes \cup EdgeCropProbes
                 \cup IntensityProbes \cup OverlayResizeProbes

Idling ==
    UNCHANGED <<build, given, caughtErr, request, pc, image, metadata, keys, values, i,
                imageMetadata, overlay, response, calls, bufferImage, result>>

\* applyEdits lines 70-106 on the drawn options and sizes
ApplyPlacement ==
    /\ probe.fn = "placement" /\ ~probe.done
    /\ probe' = [probe EXCEPT
                    !.done = TRUE,
                    !.out = PlacedOptions(probe.options, probe.base,
                                          probe.overlayMetadata)]
    /\ Idling

\* getCropArea on the drawn box, options and metadata
ApplyGetCropArea ==
    /\ probe.fn = "getCropArea" /\ ~probe.done
    /\ probe' = [probe EXCEPT
                    !.done = TRUE,
                    !.out = getCropArea(probe.boundingBox, probe.options,
                                        probe.metadata)]
    /\ Idling

\* getOverlayImage lines 175-184 on the drawn alpha
ApplyOverlayIntensity ==
    /\ probe.fn = "intensity" /\ ~probe.done
    /\ probe' = [probe EXCEPT !.done = TRUE, !.out = OverlayIntensity(probe.alpha)]
    /\ Idling

\* getOverlayImage lines 161-172 on the drawn ratios and base size
ApplyOverlayResize ==
    /\ probe.fn = "resize" /\ ~probe.done
    /\ probe' = [probe EXCEPT
                    !.done = TRUE,
                    !.out = OverlayResize(probe.wRatio, probe.hRatio,
                                          probe.sourceImageMetadata)]
    /\ Idling

NextFunctions ==
    \/ ApplyPlacement
    \/ ApplyGetCropArea
    \/ ApplyOverlayIntensity
    \/ ApplyOverlayResize

SpecFunctions == InitFunctions /\ [][NextFunctions]_vars

(***************************************************************************)
(* Properties.  What they are stated with.                                 *)
(***************************************************************************)
\* the bytes a base64 text stands for
RECURSIVE Base64Decode(_)
Base64Decode(text) ==
    IF Len(text) < 4 THEN <<>>
    ELSE LET a == text[1]
             b == text[2]
             c == text[3]
             d == text[4]
             first == a * 4 + b \div 16
             second == (b % 16) * 16 + c \div 4
             third == (c % 4) * 64 + d
         IN  (IF c = 64 THEN <<first>>
              ELSE IF d = 64 THEN <<first, second>>
              ELSE <<first, second, third>>)
             \o Base64Decode(SubSeq(text, 5, Len(text)))

\* num/den rounded toward zero, and rounded down (den > 0)
TowardZero(num, den) == IF num >= 0 THEN num \div den ELSE 0 - ((0 - num) \div den)

Floor(num, den) == num \div den

\* num/den as parseInt reads it: rounded toward zero, but a nonzero magnitude
\* below 1e-6 is written in exponent notation and read as its first digit
ReadAsInteger(num, den) ==
    IF num > 0 /\ num <= (den - 1) \div 1000000 THEN LeadingDigit(num, den)
    ELSE IF num < 0 /\ (0 - num) <= (den - 1) \div 1000000
    THEN 0 - LeadingDigit(0 - num, den)
    ELSE TowardZero(num, den)

\* the handler added the resize entry itself: no caller of this model passes
\* {fit: 'inside'} as its own resize
Defaulted(r) ==
    \E j \in 1..Len(request[r].edits.entries) :
        request[r].edits.entries[j] = [key |-> "resize", value |-> DefaultResize]

ResizeCallAt(r, j) == calls[r][j].who = "image" /\ calls[r][j].op = "resize"

\* the caller's edit set was {}: all it holds is the resize the handler added
EmptyEdits(r) ==
    /\ request[r].edits.defined
    /\ request[r].edits.entries = <<[key |-> "resize", value |-> DefaultResize]>>

\* the operations called on the handle, and the collaborators called, in order
CallNames(r) == [j \in 1..Len(calls[r]) |-> <<calls[r][j].who, calls[r][j].op>>]

\* the request failed while directive i was being processed
FailedAtDirective(r) == result[r].kind = "error" /\ i[r] \in 1..Len(keys[r])

\* the parameters of the smartCrop edit of the request
SmartCropOptions(r) ==
    values[r][CHOOSE j \in 1..Len(keys[r]) : keys[r][j] = "smartCrop"]

RequestedFace(r) ==
    IF SmartCropOptions(r).faceIndex.t = "undef" THEN 0
    ELSE SmartCropOptions(r).faceIndex.n

ExtractCalls(r) ==
    {j \in 1..Len(calls[r]) : calls[r][j].who = "image" /\ calls[r][j].op = "extract"}

\* a crop rectangle that leaves an image of the given size
Exceeds(rect, size) ==
    /\ ~rect.left.nan /\ ~rect.top.nan /\ ~rect.width.nan /\ ~rect.height.nan
    /\ \/ rect.left.n < 0
       \/ rect.top.n < 0
       \/ rect.left.n + rect.width.n > size.width
       \/ rect.top.n + rect.height.n > size.height

(***************************************************************************)
(* Properties of a request (Spec).                                         *)
(***************************************************************************)
\* C1, as claimed: when the edit set has no resize key, the default resize is
\* the first directive processed: every call made for another directive comes
\* after the resize call on the image handle.
C1_DefaultResizeFirst ==
    \A r \in Reqs :
        Defaulted(r) =>
            \A j \in 1..Len(calls[r]) :
                (calls[r][j].dir >= 1 /\ ~ResizeCallAt(r, j)) =>
                    \E k \in 1..(j - 1) : ResizeCallAt(r, k)

\* C1, amended: when the edit set has no resize key, {fit: 'inside'} is added
\* as the LAST key: resize is called on the handle with it only after every
\* caller-specified directive has been processed, and no call for another
\* directive follows it.
C1_DefaultResizeLast ==
    \A r \in Reqs :
        Defaulted(r) =>
            LET entries == request[r].edits.entries
            IN  /\ entries[Len(entries)] = [key |-> "resize", value |-> DefaultResize]
                /\ keys[r] # <<>> => keys[r][Len(keys[r])] = "resize"
                /\ \A j \in 1..Len(calls[r]) :
                      ResizeCallAt(r, j) =>
                          /\ calls[r][j].dir = Len(keys[r])
                          /\ calls[r][j].arg = DefaultResize
                          /\ \A d \in 1..(Len(keys[r]) - 1) :
                                \E k \in 1..(j - 1) : calls[r][k].dir = d
                          /\ \A k \in 1..Len(calls[r]) :
                                (calls[r][k].dir >= 1 /\ k # j) =>
                                    (k < j /\ calls[r][k].dir < Len(keys[r]))

\* C1, witness: two caller-specified directives were processed, then the
\* default resize was called on the handle.
C1_Witness ==
    \E r \in Reqs :
        /\ Defaulted(r)
        /\ Len(keys[r]) = 3
        /\ \E j \in 1..Len(calls[r]) : ResizeCallAt(r, j)

\* the awaits inside one directive
InsideDirective(r) ==
    pc[r] \in {"imageBuffer", "resizedMetadata", "getObject", "convert",
               "overlayMetadata", "detectFaces"}

\* C2: the directives are processed one after another in the order of the
\* keys: the calls made for the directives appear in the order of the
\* directives, none for a directive the loop has not reached, while a directive
\* is suspended the last call made is its own, each directive gets at most one
\* operation on the handle and, when the loop is over, every directive has been
\* processed.
C2_OneDirectiveAtATime ==
    \A r \in Reqs :
        /\ \A j, k \in 1..Len(calls[r]) :
              (j < k /\ calls[r][j].dir >= 1 /\ calls[r][k].dir >= 1) =>
                  calls[r][j].dir <= calls[r][k].dir
        /\ \A j \in 1..Len(calls[r]) :
              calls[r][j].dir >= 1 =>
                  (calls[r][j].dir <= i[r] /\ calls[r][j].dir <= Len(keys[r]))
        /\ InsideDirective(r) =>
              /\ i[r] \in 1..Len(keys[r])
              /\ calls[r][Len(calls[r])].dir = i[r]
        /\ \A d \in 1..Len(keys[r]) :
              Cardinality({j \in 1..Len(calls[r]) :
                              /\ calls[r][j].dir = d
                              /\ calls[r][j].who = "image"
                              /\ calls[r][j].op # "toBuffer"}) <= 1
        /\ \A d \in 1..Len(keys[r]) :
              (d < i[r]
               /\ keys[r][d] \notin {"overlayWith", "smartCrop", "TEPWatermark"}) =>
                  \E j \in 1..Len(calls[r]) :
                      /\ calls[r][j].dir = d
                      /\ calls[r][j].who = "image"
                      /\ calls[r][j].op = keys[r][d]
                      /\ calls[r][j].arg = values[r][d]
                      /\ \A k \in 1..Len(calls[r]) :
                            calls[r][k].dir = d => k = j
        /\ (pc[r] = "toBuffer" \/ result[r].kind = "ok") =>
              \A d \in 1..Len(keys[r]) :
                  \E j \in 1..Len(calls[r]) : calls[r][j].dir = d

\* C2, witness: a finished request whose first directive fetched an overlay
\* and whose second called the face detector.
C2_Witness ==
    \E r \in Reqs :
        /\ result[r].kind = "ok"
        /\ \E j, k \in 1..Len(calls[r]) :
              /\ j < k
              /\ calls[r][j].who = "s3" /\ calls[r][j].dir = 1
              /\ calls[r][k].who = "rekognition" /\ calls[r][k].dir = 2

\* C3: with request.edits undefined, process resolves with the base64 text of
\* the original bytes, whatever outputFormat is, and nothing is called: no
\* handle is opened, no operation queued, no collaborator asked.
C3_NoEditsReturnsOriginal ==
    \A r \in Reqs :
        (pc[r] = "done" /\ ~request[r].edits.defined) =>
            /\ result[r].kind = "ok"
            /\ result[r].body = Base64(request[r].originalImage)
            /\ Base64Decode(result[r].body) = request[r].originalImage
            /\ calls[r] = <<>>
            /\ image[r] = <<>>

\* C3, witness: a request without edits and with an output format is done.
C3_Witness ==
    \E r \in Reqs :
        /\ pc[r] = "done"
        /\ ~request[r].edits.defined
        /\ request[r].outputFormat = "png"
        /\ Len(request[r].originalImage) = 4

\* C4, as claimed: with the edit set {} process resolves with the base64 text
\* of the original bytes.
C4_EmptyEditsReturnsOriginal ==
    \A r \in Reqs :
        (pc[r] = "done" /\ EmptyEdits(r) /\ IsImage(request[r].originalImage)) =>
            /\ result[r].kind = "ok"
            /\ Base64Decode(result[r].body) = request[r].originalImage

\* C4, amended: with the edit set {} the image goes through the handle: the
\* default resize is the one directive, resize({fit: 'inside'}) the one
\* operation (before toFormat, if an output format is asked for), and process
\* resolves with the base64 text of the bytes toBuffer() answered with; a
\* buffer the handle cannot read makes process reject.
C4_EmptyEditsReencoded ==
    \A r \in Reqs :
        (pc[r] = "done" /\ EmptyEdits(r)) =>
            IF IsImage(request[r].originalImage)
            THEN /\ result[r].kind = "ok"
                 /\ Base64Decode(result[r].body) = bufferImage[r]
                 /\ bufferImage[r] \in EncodedImages
                 /\ CallNames(r) =
                        <<<<"sharp", "open">>, <<"image", "metadata">>,
                          <<"image", "resize">>>>
                        \o (IF request[r].outputFormat # "undefined"
                            THEN <<<<"image", "toFormat">>>> ELSE <<>>)
                        \o <<<<"image", "toBuffer">>>>
                 /\ image[r][1] = [op |-> "resize", arg |-> DefaultResize]
            ELSE result[r].kind = "error"

\* C4, witness: a request with the edit set {} resolved with bytes that are
\* not the original's.
C4_Witness ==
    \E r \in Reqs :
        /\ pc[r] = "done" /\ EmptyEdits(r)
        /\ result[r].kind = "ok"
        /\ Base64Decode(result[r].body) # request[r].originalImage

\* C5: a failure while a directive is processed ends the request: process has
\* rejected with the error and with no image, no call was made for a later
\* directive, and neither toFormat nor the final toBuffer was called.
C5_FailureIsTerminal ==
    \A r \in Reqs :
        FailedAtDirective(r) =>
            /\ pc[r] = "done"
            /\ result[r].body = <<>>
            /\ bufferImage[r] = <<>>
            /\ \A j \in 1..Len(calls[r]) :
                  /\ calls[r][j].dir <= i[r]
                  /\ calls[r][j].dir = 0 =>
                        calls[r][j].op \notin {"toFormat", "toBuffer"}
            /\ \A j \in 1..Len(image[r]) : image[r][j].op # "toFormat"

\* C5, witness: an overlay fetch failed at the first of three directives of a
\* request that asks for an output format.
C5_Witness ==
    \E r \in Reqs :
        /\ FailedAtDirective(r)
        /\ i[r] = 1 /\ Len(keys[r]) = 3
        /\ result[r].err.code = "NoSuchKey"
        /\ request[r].outputFormat = "png"

\* C6: when detectFaces answers with fewer faces than the requested index
\* needs (the index defaults to 0), the request rejects with status 400 and
\* code SmartCrop::FaceIndexOutOfRange, and extract is never called.
C6_FaceIndexOutOfRange ==
    \A r \in Reqs :
        (response[r].settled = "resolved"
         /\ RequestedFace(r) >= Len(response[r].FaceDetails)) =>
            /\ pc[r] = "done"
            /\ result[r].kind = "error"
            /\ result[r].err.status = 400
            /\ result[r].err.code = "SmartCrop::FaceIndexOutOfRange"
            /\ ExtractCalls(r) = {}
            /\ \A j \in 1..Len(image[r]) : image[r][j].op # "extract"

\* C6, witness: no face detected and no faceIndex given.
C6_Witness ==
    \E r \in Reqs :
        /\ response[r].settled = "resolved"
        /\ response[r].FaceDetails = <<>>
        /\ SmartCropOptions(r).faceIndex = Undef
        /\ result[r].kind = "error"

\* C7, as claimed: a smartCrop (here the only directive given, so that the
\* image is the original one and nothing else can fail) whose crop rectangle
\* leaves the image makes the request reject with status 400 and code
\* SmartCrop::PaddingOutOfBounds.
C7_OutOfBoundsIsPaddingError ==
    \A r \in Reqs :
        (pc[r] = "done" /\ keys[r] = <<"smartCrop", "resize">>) =>
            \A j \in ExtractCalls(r) :
                Exceeds(calls[r][j].arg, metadata[r]) =>
                    /\ result[r].kind = "error"
                    /\ result[r].err.status = 400
                    /\ result[r].err.code = "SmartCrop::PaddingOutOfBounds"

(***************************************************************************)
(* Properties of the functions (SpecFunctions).                            *)
(***************************************************************************)
PaddingOf(v) == CHOOSE c \in PaddingCases : c.value = v

PlacementOf(v) == CHOOSE c \in PlacementCases : c.text = v.s

CropProbeDone == probe.fn = "getCropArea" /\ probe.done

\* the four numbers of the crop rectangle before rounding, over CropDen
CropDen == probe.boundingBox.den * PaddingOf(probe.options.padding).den

CropNum(boxNum, dim, factor) ==
    boxNum * dim * PaddingOf(probe.options.padding).den
    + factor * PaddingOf(probe.options.padding).num * probe.boundingBox.den

CropExample ==
    /\ probe.boundingBox
         = [Left |-> 1, Top |-> 2, Width |-> 5, Height |-> 4, den |-> 10]
    /\ probe.metadata = [width |-> 300, height |-> 200]
    /\ probe.options.padding = Num(5)

CropExampleHolds ==
    CropExample =>
        /\ probe.out.left.n = 25 /\ probe.out.top.n = 35
        /\ probe.out.width.n = 160 /\ probe.out.height.n = 90

\* C8, as claimed: each coordinate of the crop rectangle is the floor of
\* Left*width - padding, Top*height - padding, Width*width + 2*padding,
\* Height*height + 2*padding, negative non-integral values included.
C8_CropAreaIsFloor ==
    CropProbeDone =>
        /\ ~probe.out.left.nan
        /\ probe.out.left.n
             = Floor(CropNum(probe.boundingBox.Left, probe.metadata.width, 0 - 1),
                     CropDen)
        /\ probe.out.top.n
             = Floor(CropNum(probe.boundingBox.Top, probe.metadata.height, 0 - 1),
                     CropDen)
        /\ probe.out.width.n
             = Floor(CropNum(probe.boundingBox.Width, probe.metadata.width, 2),
                     CropDen)
        /\ probe.out.height.n
             = Floor(CropNum(probe.boundingBox.Height, probe.metadata.height, 2),
                     CropDen)
        /\ CropExampleHolds

\* C8, amended: each coordinate is that value rounded toward zero (parseInt;
\* a nonzero value of magnitude below 1e-6 is read from its exponent notation),
\* which is the floor only when the value is not negative: -17.5 gives -17 and
\* -0.875 gives 0.  The example {0.1, 0.2, 0.5, 0.4} on 300x200 with padding 5
\* gives {25, 35, 160, 90}.
C8_CropAreaIsTruncation ==
    CropProbeDone =>
        /\ ~probe.out.left.nan /\ ~probe.out.top.nan
        /\ ~probe.out.width.nan /\ ~probe.out.height.nan
        /\ probe.out.left.n
             = ReadAsInteger(CropNum(probe.boundingBox.Left, probe.metadata.width, 0 - 1),
                             CropDen)
        /\ probe.out.top.n
             = ReadAsInteger(CropNum(probe.boundingBox.Top, probe.metadata.height, 0 - 1),
                             CropDen)
        /\ probe.out.width.n
             = ReadAsInteger(CropNum(probe.boundingBox.Width, probe.metadata.width, 2),
                             CropDen)
        /\ probe.out.height.n
             = ReadAsInteger(CropNum(probe.boundingBox.Height, probe.metadata.height, 2),
                             CropDen)
        /\ CropExampleHolds

\* C8, witness: Left*width - padding is negative and not an integer, and the
\* coordinate returned is above its floor.
C8_Witness ==
    /\ CropProbeDone
    /\ CropNum(probe.boundingBox.Left, probe.metadata.width, 0 - 1) < 0
    /\ CropNum(probe.boundingBox.Left, probe.metadata.width, 0 - 1) % CropDen # 0
    /\ probe.out.left.n
         > Floor(CropNum(probe.boundingBox.Left, probe.metadata.width, 0 - 1),
                 CropDen)

PlacementProbeDone == probe.fn = "placement" /\ probe.done

\* what the claims say of one axis: the percentage p of the base dimension,
\* measured for p < 0 from the far edge with the overlay's extent taken off
PercentPlacement(p, base, extent) ==
    IF p >= 0 THEN TowardZero(base * p, 100)
    ELSE TowardZero(base * 100 + base * p - extent * 100, 100)

\* the pixel value v, measured for v < 0 from the far edge
PixelPlacement(v, base, extent) == IF v >= 0 THEN v ELSE base + v - extent

PercentAxisHolds(opt, out, base, extent) ==
    (opt # Undef /\ PlacementOf(opt).percent) =>
        out = Num(PercentPlacement(PlacementOf(opt).n, base, extent))

PixelAxisHolds(opt, out, base, extent) ==
    (opt # Undef /\ ~PlacementOf(opt).percent) =>
        out = Num(PixelPlacement(PlacementOf(opt).n, base, extent))

LeftExample(text) ==
    /\ probe.options.left = Str(text)
    /\ probe.base.width = 200
    /\ probe.overlayMetadata.width = 20

PercentRuleHolds ==
    /\ PercentAxisHolds(probe.options.left, probe.out.left, probe.base.width,
                        probe.overlayMetadata.width)
    /\ PercentAxisHolds(probe.options.top, probe.out.top, probe.base.height,
                        probe.overlayMetadata.height)

\* C9, as claimed: a percent placement p resolves to trunc(base * p / 100) for
\* p >= 0 and to trunc(base + base * p / 100 - overlay) for p < 0; on base width
\* 200 with overlay width 20, "10p" gives 20 and "-10p" gives 158.
C9_PercentPlacementAsClaimed ==
    PlacementProbeDone =>
        /\ PercentRuleHolds
        /\ LeftExample(<<"1", "0", "p">>) => probe.out.left = Num(20)
        /\ LeftExample(<<"-", "1", "0", "p">>) => probe.out.left = Num(158)

\* C9, amended: the same rule; on base width 200 with overlay width 20, "10p"
\* gives 20 and "-10p" gives 200 - 20 - 20 = 160 (the overlay's far edge at 180).
C9_PercentPlacement ==
    PlacementProbeDone =>
        /\ PercentRuleHolds
        /\ LeftExample(<<"1", "0", "p">>) => probe.out.left = Num(20)
        /\ LeftExample(<<"-", "1", "0", "p">>) => probe.out.left = Num(160)

\* C9, witness: "-10p" resolved on base width 200 with overlay width 20.
C9_Witness ==
    /\ PlacementProbeDone
    /\ LeftExample(<<"-", "1", "0", "p">>)
    /\ probe.out.left = Num(160)
    /\ probe.options.top = Str(<<"-", "3", "3", "p">>)

\* C10: a plain integer placement v resolves to v for v >= 0 and to
\* base + v - overlay for v < 0; on base width 200 with overlay width 20, "-30"
\* gives 150 and "30" gives 30.
C10_PixelPlacement ==
    PlacementProbeDone =>
        /\ PixelAxisHolds(probe.options.left, probe.out.left, probe.base.width,
                          probe.overlayMetadata.width)
        /\ PixelAxisHolds(probe.options.top, probe.out.top, probe.base.height,
                          probe.overlayMetadata.height)
        /\ LeftExample(<<"-", "3", "0">>) => probe.out.left = Num(150)
        /\ LeftExample(<<"3", "0">>) => probe.out.left = Num(30)

\* C10, witness: "-30" resolved on base width 200 with overlay width 20, and a
\* negative pixel top as well.
C10_Witness ==
    /\ PlacementProbeDone
    /\ LeftExample(<<"-", "3", "0">>)
    /\ probe.out.left = Num(150)
    /\ probe.options.top = Str(<<"-", "2", "5", "0">>)

(***************************************************************************)
(* Properties of a request, continued (Spec).                              *)
(***************************************************************************)
\* the place of key k in the request's edit mapping, 0 when it has no such key
KeyIndex(r, k) ==
    IF HasKey(request[r].edits.entries, k)
    THEN CHOOSE j \in 1..Len(request[r].edits.entries) :
            request[r].edits.entries[j].key = k
    ELSE 0

\* the size the original image has once the request's resize directive is applied
SizeAfterResize(r) ==
    ResizedSize(metadata[r], request[r].edits.entries[KeyIndex(r, "resize")].value)

\* an overlayWith or TEPWatermark directive has computed its imageMetadata, in
\* a request whose only other directive is the resize
BaseMeasured(r) ==
    /\ imageMetadata[r] # NoSize
    /\ Len(keys[r]) = 2
    /\ KeyIndex(r, "resize") # 0

\* C11, as claimed: the base width and height an overlayWith or TEPWatermark
\* directive works with are those of the image after the resize directive of
\* the edit set, wherever that directive stands in the iteration order.
C11_BaseIsResizedSize ==
    \A r \in Reqs : BaseMeasured(r) => imageMetadata[r] = SizeAfterResize(r)

\* what does hold: the base is the image as rendered from the operations queued
\* so far, which includes the resize only when its key comes first
BaseIsRenderedSoFar ==
    \A r \in Reqs :
        BaseMeasured(r) =>
            imageMetadata[r]
                = IF KeyIndex(r, "resize") = 1 THEN SizeAfterResize(r)
                  ELSE metadata[r]

\* the TEPWatermark directives of the request that the loop has gone past
WatermarksPassed(r) ==
    {j \in 1..Len(keys[r]) : keys[r][j] = "TEPWatermark" /\ i[r] > j}

\* the width of the image a directive measured: that of the buffer its
\* image.toBuffer() rendered from the operations queued before it
BaseWidthAt(r, j) ==
    LET c == CHOOSE c \in 1..Len(calls[r]) :
                /\ calls[r][c].dir = j
                /\ calls[r][c].who = "image" /\ calls[r][c].op = "toBuffer"
    IN  RenderedSize(metadata[r], calls[r][c].arg).width

CompositeCalls(r, j) ==
    {c \in 1..Len(calls[r]) :
        /\ calls[r][c].dir = j
        /\ calls[r][c].who = "image" /\ calls[r][c].op = "composite"}

\* the request failed in directive j, after that directive rendered its buffer
FailedInOverlayFetch(r, j) ==
    /\ pc[r] = "done" /\ result[r].kind = "error" /\ i[r] = j
    /\ calls[r][Len(calls[r])].who \in {"s3", "sharp"}
    /\ calls[r][Len(calls[r])].dir = j

\* C12, as claimed: a TEPWatermark directive composites the watermark if and
\* only if the base width is > 340, or > 150 with options.style "cute";
\* otherwise nothing is composited, no error is raised and the loop goes on.
C12_WatermarkCondition ==
    \A r \in Reqs :
        /\ \A j \in WatermarksPassed(r) :
              (CompositeCalls(r, j) # {})
                  <=> WatermarkFits(BaseWidthAt(r, j), values[r][j].options.style)
        /\ \A j \in 1..Len(keys[r]) :
              keys[r][j] = "TEPWatermark" => ~FailedInOverlayFetch(r, j)

\* the request failed inside getOverlayImage: the last call made is the fetch
\* of the overlay or its conversion
FailedInGetOverlayImage(r) ==
    /\ pc[r] = "done" /\ result[r].kind = "error"
    /\ calls[r] # <<>>
    /\ \/ calls[r][Len(calls[r])].who = "s3"
            /\ calls[r][Len(calls[r])].op = "getObject"
       \/ calls[r][Len(calls[r])].who = "sharp"
            /\ calls[r][Len(calls[r])].op = "overlay.toBuffer"

\* C13: when the fetch or the conversion of the overlay fails, the request
\* rejects with the collaborator error's status code, or 500 if it has none,
\* and with its code and message unchanged; no overlay comes back and nothing
\* is composited for that edit.
C13_OverlayFailurePropagates ==
    \A r \in Reqs :
        FailedInGetOverlayImage(r) =>
            /\ ~result[r].err.native
            /\ result[r].err.status
                 = (IF caughtErr[r].statusCode # 0 THEN caughtErr[r].statusCode
                    ELSE 500)
            /\ result[r].err.code = caughtErr[r].code
            /\ result[r].err.message = caughtErr[r].message
            /\ CompositeCalls(r, i[r]) = {}
            /\ \A c \in 1..Len(calls[r]) :
                  calls[r][c].dir = i[r] => calls[r][c].op # "overlay.metadata"

\* C13, witness: S3 answered 404 NoSuchKey and the request rejected with it.
C13_Witness ==
    \E r \in Reqs :
        /\ FailedInGetOverlayImage(r)
        /\ caughtErr[r].statusCode = 404
        /\ result[r].err.status = 404
        /\ result[r].err.code = "NoSuchKey"

\* C14, as claimed: a failure of detectFaces is propagated with the detector
\* error's status code, or 500 if it has none, and with its code and message.
C14_DetectorFailurePropagates ==
    \A r \in Reqs :
        response[r].settled = "rejected" =>
            /\ pc[r] = "done" /\ result[r].kind = "error"
            /\ result[r].err.status
                 = (IF caughtErr[r].statusCode # 0 THEN caughtErr[r].statusCode
                    ELSE 500)
            /\ result[r].err.code = caughtErr[r].code
            /\ result[r].err.message = caughtErr[r].message

\* what does hold: the status is 500 whatever the detector's status code
DetectorFailureIsInternal ==
    \A r \in Reqs :
        response[r].settled = "rejected" =>
            /\ pc[r] = "done" /\ result[r].kind = "error"
            /\ result[r].err.status = 500
            /\ result[r].err.code = caughtErr[r].code
            /\ result[r].err.message = caughtErr[r].message

(***************************************************************************)
(* Properties of the functions, continued (SpecFunctions).                 *)
(***************************************************************************)
RatioOf(v) == CHOOSE c \in RatioCases : c.value = v

IntensityProbeDone == probe.fn = "intensity" /\ probe.done

\* the alpha that counts: the one given if it is an integer of 0..100, else 0
EffectiveAlpha(v) == IF RatioOf(v).inRange THEN RatioOf(v).n ELSE 0

\* C15: the intensity byte of the overlay's alpha tile is 255 * (1 - alpha/100)
\* as a whole number of 0..255 (the number the code computes, cut to a byte:
\* never above the exact value and less than one below it, one below where the
\* exact value is whole and the code's arithmetic falls short of it), for alpha
\* an integer of 0..100; any other alpha, or none, counts as 0.  Alpha 100
\* gives 0, alpha 0, none or out of range gives 255.
C15_OverlayIntensity ==
    IntensityProbeDone =>
        /\ probe.out \in 0..255
        /\ probe.out * 100 <= 255 * (100 - EffectiveAlpha(probe.alpha))
        /\ 255 * (100 - EffectiveAlpha(probe.alpha)) <= probe.out * 100 + 100
        /\ EffectiveAlpha(probe.alpha) = 100 => probe.out = 0
        /\ EffectiveAlpha(probe.alpha) = 0 => probe.out = 255
        /\ EffectiveAlpha(probe.alpha) = 50 => probe.out = 127

\* C15, witness: an alpha above 100 gives the intensity of alpha 0.
C15_Witness ==
    /\ IntensityProbeDone
    /\ probe.alpha = Num(150)
    /\ probe.out = 255

ResizeProbeDone == probe.fn = "resize" /\ probe.done

\* what the claim says of one axis of the overlay's resize options
ConstraintHolds(ratio, out, base) ==
    IF RatioOf(ratio).inRange
    THEN out = Num(TowardZero(base * RatioOf(ratio).n, 100))
    ELSE out = Undef

\* C16: the overlay is resized with fit "inside"; its width is constrained to
\* trunc(baseWidth * wRatio / 100) if and only if wRatio is an integer of
\* 0..100, its height to trunc(baseHeight * hRatio / 100) if and only if
\* hRatio is one, each axis whatever the other.
C16_OverlayResize ==
    ResizeProbeDone =>
        /\ probe.out.fit = "inside"
        /\ ConstraintHolds(probe.wRatio, probe.out.width,
                           probe.sourceImageMetadata.width)
        /\ ConstraintHolds(probe.hRatio, probe.out.height,
                           probe.sourceImageMetadata.height)

\* C16, witness: the height is constrained and the width is not.
C16_Witness ==
    /\ ResizeProbeDone
    /\ probe.wRatio = Undef
    /\ probe.hRatio = Num(33)
    /\ probe.sourceImageMetadata = [width |-> 333, height |-> 77]
    /\ probe.out = [fit |-> "inside", width |-> Undef, height |-> Num(25)]

(***************************************************************************)
(* Properties of a request, continued (Spec).                              *)
(***************************************************************************)
\* applyEdits has returned the handle or has failed
ApplyEditsOver(r) == request[r].edits.defined /\ pc[r] \in {"toBuffer", "done"}

\* C17, as claimed: once applyEdits has returned or failed, the caller's edit
\* mapping has the keys and the parameter values it had before the call.
C17_EditsUntouched ==
    \A r \in Reqs : ApplyEditsOver(r) => request[r].edits = given[r].edits

\* what does hold: the mapping is the caller's with the default resize added
\* when it had none, and with the placement of an overlayWith directive that
\* got as far as its placement block resolved to numbers
EditsRewritten ==
    \A r \in Reqs :
        ApplyEditsOver(r) =>
            /\ Len(request[r].edits.entries)
                 = Len(InjectResize(given[r].edits.entries))
            /\ \A j \in 1..Len(request[r].edits.entries) :
                  \/ request[r].edits.entries[j]
                       = InjectResize(given[r].edits.entries)[j]
                  \/ /\ request[r].edits.entries[j].key = "overlayWith"
                     /\ \E c \in 1..Len(calls[r]) :
                           calls[r][c].dir = j /\ calls[r][c].op = "overlay.metadata"
                     /\ [request[r].edits.entries[j].value EXCEPT
                            !.options = given[r].edits.entries[j].value.options]
                          = given[r].edits.entries[j].value
                     /\ LET was == given[r].edits.entries[j].value.options
                            now == request[r].edits.entries[j].value.options
                        IN  /\ now.present = was.present
                            /\ now.left = was.left \/ now.left.t \in {"num", "nan"}
                            /\ now.top = was.top \/ now.top.t \in {"num", "nan"}

\* the format conversions process itself asked for
FormatCalls(r) ==
    {c \in 1..Len(calls[r]) :
        /\ calls[r][c].who = "image" /\ calls[r][c].op = "toFormat"
        /\ calls[r][c].dir = 0}

\* every directive has been processed and applyEdits has returned
LoopOver(r) == ApplyEditsOver(r) /\ i[r] = Len(keys[r]) + 1

\* C18: with edits present, toFormat is called if and only if
\* request.outputFormat is given, once, after every directive has been
\* processed and right before the image is encoded with toBuffer.
C18_FormatAfterDirectives ==
    \A r \in Reqs :
        /\ Cardinality(FormatCalls(r)) <= 1
        /\ LoopOver(r) =>
              (FormatCalls(r) # {} <=> request[r].outputFormat # "undefined")
        /\ ~LoopOver(r) => FormatCalls(r) = {}
        /\ \A c \in FormatCalls(r) :
              /\ calls[r][c].arg = request[r].outputFormat
              /\ c = Len(calls[r]) - 1
              /\ calls[r][c + 1].who = "image" /\ calls[r][c + 1].op = "toBuffer"
              /\ calls[r][c + 1].dir = 0
              /\ \A j \in 1..Len(keys[r]) :
                    \E d \in 1..(c - 1) : calls[r][d].dir = j

\* C18, witness: a request with an output format and a caller's directive
\* was converted and encoded.
C18_Witness ==
    \E r \in Reqs :
        /\ pc[r] = "done" /\ result[r].kind = "ok"
        /\ request[r].outputFormat = "png"
        /\ Len(keys[r]) >= 2
        /\ FormatCalls(r) # {}

FetchCalls(r, j) ==
    {c \in 1..Len(calls[r]) :
        /\ calls[r][c].who = "s3" /\ calls[r][c].op = "getObject"
        /\ calls[r][c].dir = j}

DetectCalls(r, j) ==
    {c \in 1..Len(calls[r]) :
        /\ calls[r][c].who = "rekognition" /\ calls[r][c].op = "detectFaces"
        /\ calls[r][c].dir = j}

\* C19: a directive calls S3 at most once and Rekognition at most once, also
\* when the call fails; only overlayWith (and the image-handler.js TEPWatermark)
\* calls S3, only smartCrop calls Rekognition.
C19_NoRetry ==
    \A r \in Reqs :
        \A j \in 1..Len(keys[r]) :
            /\ Cardinality(FetchCalls(r, j)) <= 1
            /\ Cardinality(DetectCalls(r, j)) <= 1
            /\ FetchCalls(r, j) # {} => keys[r][j] \in {"overlayWith", "TEPWatermark"}
            /\ DetectCalls(r, j) # {} => keys[r][j] = "smartCrop"

\* C19, witness: the fetch of the overlay failed, after one call.
C19_Witness ==
    \E r \in Reqs :
        /\ FailedInGetOverlayImage(r)
        /\ calls[r][Len(calls[r])].op = "getObject"
        /\ caughtErr[r].code = "NetworkingError"
        /\ Cardinality(FetchCalls(r, i[r])) = 1

(***************************************************************************)
(* Properties of two requests in progress at once (SpecPair).              *)
(***************************************************************************)
\* everything a request owns
Locals(r) ==
    <<request[r], pc[r], image[r], metadata[r], keys[r], values[r], i[r],
      imageMetadata[r], overlay[r], response[r], calls[r], bufferImage[r],
      result[r], caughtErr[r]>>

\* a step writes to what one request owns, and to nothing of the other
OneRequestSteps ==
    \A r, q \in Reqs : (r # q /\ Locals(r)' # Locals(r)) => Locals(q)' = Locals(q)

\* what a request works with is what its own caller and its own collaborator
\* calls gave it: its image, its metadata, its keys, its faces
OwnData(r) ==
    /\ calls[r] # <<>> => calls[r][1].arg = given[r].originalImage
    /\ metadata[r] \in {NoSize, ImageSize(given[r].originalImage)}
    /\ keys[r] # <<>> =>
          keys[r] = [j \in 1..Len(InjectResize(given[r].edits.entries)) |->
                        InjectResize(given[r].edits.entries)[j].key]
    /\ \A c \in ExtractCalls(r) :
          calls[r][c].arg
            = getCropArea(response[r].FaceDetails[RequestedFace(r) + 1],
                          SmartCropOptions(r), ImageSize(given[r].originalImage))
    /\ (pc[r] = "done" /\ ~given[r].edits.defined) =>
          /\ result[r] = Resolved(Base64(given[r].originalImage))
          /\ calls[r] = <<>>
    /\ (pc[r] = "done" /\ given[r].edits.defined
            /\ ~IsImage(given[r].originalImage)) =>
          /\ result[r] = Rejected(UnsupportedImageError)
          /\ Len(calls[r]) = 2
    /\ (pc[r] = "done" /\ given[r].edits.defined /\ result[r].kind = "ok") =>
          result[r].body = Base64(bufferImage[r])

\* C20: of two requests in progress at once, interleaved in any way at their
\* awaits, each step reads and writes what one request owns: no handle,
\* metadata or other state is shared, and each request works with its own
\* data and settles as it does alone.
C20_RequestsIsolated ==
    /\ [][OneRequestSteps]_vars
    /\ [](\A r \in Reqs : OwnData(r))

\* C20, witness: both requests are suspended at an await, each with its own
\* image and metadata.
C20_Witness ==
    /\ pc[1] = "detectFaces" /\ pc[2] = "convert"
    /\ given[1] # given[2]
    /\ metadata[1] = [width |-> 120, height |-> 80]
    /\ metadata[2] = [width |-> 200, height |-> 100]

(***************************************************************************)
(* Properties of a request, continued (Spec).                              *)
(***************************************************************************)
\* the size of the image a directive measured (see BaseWidthAt)
BaseSizeAt(r, j) ==
    LET c == CHOOSE c \in 1..Len(calls[r]) :
                /\ calls[r][c].dir = j
                /\ calls[r][c].who = "image" /\ calls[r][c].op = "toBuffer"
    IN  RenderedSize(metadata[r], calls[r][c].arg)

\* the overlay a directive got back from getOverlayImage: the object S3
\* answered with, resized as the conversion was asked to
FetchedOverlay(r, j) ==
    LET c == CHOOSE c \in 1..Len(calls[r]) :
                /\ calls[r][c].dir = j
                /\ calls[r][c].who = "sharp" /\ calls[r][c].op = "overlay.toBuffer"
    IN  [calls[r][c].arg EXCEPT
            !.size = ResizedSize(calls[r][c].arg.size, calls[r][c].arg.resize)]

\* what the claims say one placement string resolves to
AxisPlacement(opt, base, extent) ==
    IF PlacementOf(opt).percent
    THEN Num(PercentPlacement(PlacementOf(opt).n, base, extent))
    ELSE Num(PixelPlacement(PlacementOf(opt).n, base, extent))

OverlayLayers(r) ==
    {c \in 1..Len(calls[r]) :
        /\ calls[r][c].dir > 0
        /\ keys[r][calls[r][c].dir] = "overlayWith"
        /\ calls[r][c].who = "image" /\ calls[r][c].op = "composite"}

\* C21: the composite layer of an overlayWith directive is the fetched overlay
\* as input plus the options; left is resolved from options.left, the base
\* width and the overlay width alone, top from options.top, the base height
\* and the overlay height alone, and an axis not given is not set.
C21_AxesIndependent ==
    \A r \in Reqs :
        \A c \in OverlayLayers(r) :
            LET j == calls[r][c].dir
                was == given[r].edits.entries[j].value.options
                layer == calls[r][c].arg
            IN  /\ layer.input = FetchedOverlay(r, j)
                /\ layer.options.present = was.present
                /\ layer.options.left
                     = IF was.left = Undef THEN Undef
                       ELSE AxisPlacement(was.left, BaseSizeAt(r, j).width,
                                          layer.input.size.width)
                /\ layer.options.top
                     = IF was.top = Undef THEN Undef
                       ELSE AxisPlacement(was.top, BaseSizeAt(r, j).height,
                                          layer.input.size.height)

\* C21, witness: a layer with a top ("-10p" of a base 100 high, under an
\* overlay 20x10: 80) and no left.
C21_Witness ==
    \E r \in Reqs :
        \E c \in OverlayLayers(r) :
            /\ calls[r][c].arg.options.left = Undef
            /\ calls[r][c].arg.options.top = Num(80)
            /\ calls[r][c].arg.input.size = [width |-> 20, height |-> 10]
            /\ BaseSizeAt(r, calls[r][c].dir) = [width |-> 200, height |-> 100]

WatermarkLayers(r) ==
    {c \in 1..Len(calls[r]) :
        /\ calls[r][c].dir > 0
        /\ keys[r][calls[r][c].dir] = "TEPWatermark"
        /\ calls[r][c].who = "image" /\ calls[r][c].op = "composite"}

\* C22, as claimed: the composite layer of a TEPWatermark directive carries no
\* left and no top from the caller's watermark options.
C22_WatermarkLayerUnplaced ==
    \A r \in Reqs :
        \A c \in WatermarkLayers(r) :
            /\ calls[r][c].arg.options.left = Undef
            /\ calls[r][c].arg.options.top = Undef

\* C22: the composite layer of a TEPWatermark directive is the caller's
\* watermark options as given, left and top included and not resolved, plus
\* the watermark as input.
C22_WatermarkLayerAsGiven ==
    \A r \in Reqs :
        \A c \in WatermarkLayers(r) :
            LET was == given[r].edits.entries[calls[r][c].dir].value.options
            IN  /\ calls[r][c].arg.input = "watermark"
                /\ calls[r][c].arg.options.left = was.left
                /\ calls[r][c].arg.options.top = was.top
                /\ calls[r][c].arg.options.name = was.name
                /\ calls[r][c].arg.options.style = was.style

\* C22, witness: a watermark layer placed by the caller at (5, 7).
C22_Witness ==
    \E r \in Reqs :
        \E c \in WatermarkLayers(r) :
            /\ calls[r][c].arg.options.left = Num(5)
            /\ calls[r][c].arg.options.top = Num(7)
            /\ given[r].edits.entries[calls[r][c].dir].value.options.left = Num(5)

\* the directives that are not one of the three the loop treats itself
PassedThrough(r) ==
    {j \in 1..Len(keys[r]) :
        keys[r][j] \notin {"overlayWith", "smartCrop", "TEPWatermark"}}

\* the parameters a directive was given: the caller's, or the default resize
\* the pipeline added
ParamsOf(r, j) ==
    IF j <= Len(given[r].edits.entries) THEN given[r].edits.entries[j].value
    ELSE DefaultResize

CallsOf(r, j) == {c \in 1..Len(calls[r]) : calls[r][c].dir = j}

\* the loop has dispatched directive j
Dispatched(r, j) ==
    \/ j < i[r]
    \/ j = i[r] /\ pc[r] = "done" /\ result[r].kind = "error"

\* C23: a dispatched directive that is not overlayWith, smartCrop or
\* TEPWatermark and names an operation of the handle makes exactly one call:
\* that operation, on the image handle, with the directive's parameters as
\* given; it calls neither S3 nor Rekognition.  A name the handle does not
\* have makes no call at all.
C23_PassThroughOnce ==
    \A r \in Reqs :
        \A j \in PassedThrough(r) :
            IF Dispatched(r, j) /\ keys[r][j] \in HandleOperations
            THEN /\ Cardinality(CallsOf(r, j)) = 1
                 /\ \A c \in CallsOf(r, j) :
                       /\ calls[r][c].who = "image"
                       /\ calls[r][c].op = keys[r][j]
                       /\ calls[r][c].arg = ParamsOf(r, j)
            ELSE CallsOf(r, j) = {}

\* C23, witness: the resize directive of the caller went to resize() as given,
\* after an overlayWith directive that did call S3.
C23_Witness ==
    \E r \in Reqs :
        /\ Len(keys[r]) = 2 /\ keys[r][2] = "resize" /\ Dispatched(r, 2)
        /\ keys[r][1] = "overlayWith" /\ FetchCalls(r, 1) # {}
        /\ Len(given[r].edits.entries) = 2
        /\ \E c \in CallsOf(r, 2) :
              calls[r][c].op = "resize" /\ calls[r][c].arg.width = Num(100)

\* the request failed in the pass-through call of directive i
FailedInPassThrough(r) ==
    /\ pc[r] = "done" /\ result[r].kind = "error"
    /\ i[r] \in PassedThrough(r)

\* C24: when the pass-through call fails, on a name the handle does not have
\* or on parameters the operation refuses, applyEdits fails with the error that
\* was thrown: a native error, with no status and no SmartCrop:: code.
C24_PassThroughFailureUnchanged ==
    \A r \in Reqs :
        FailedInPassThrough(r) =>
            /\ result[r].err.native
            /\ result[r].err.status = 0
            /\ result[r].err.code = "undefined"
            /\ result[r].err
                 = IF keys[r][i[r]] \in HandleOperations
                   THEN InvalidParametersError ELSE NotAFunctionTypeError

\* C24, witness: rotate refused its angle.
C24_Witness ==
    \E r \in Reqs :
        /\ FailedInPassThrough(r)
        /\ keys[r][i[r]] = "rotate"
        /\ result[r].err = InvalidParametersError

\* C24, second case: the name is not an operation of the handle.
C24_WitnessUnknownName ==
    \E r \in Reqs :
        /\ FailedInPassThrough(r)
        /\ keys[r][i[r]] = "notAnOperation"
        /\ result[r].err = NotAFunctionTypeError

(***************************************************************************)
(* Properties of two calls with one request object (SpecAgain).            *)
(***************************************************************************)
MarkOf(r) == CHOOSE c \in 1..Len(calls[r]) : calls[r][c].who = SecondCall.who

OnHandle(c) == c.who = "image" /\ c.dir > 0

\* the operations the directives of the first call made on the image handle
FirstOperations(r) == SelectSeq(SubSeq(calls[r], 1, MarkOf(r) - 1), OnHandle)

\* those of the second call
SecondOperations(r) ==
    SelectSeq(SubSeq(calls[r], MarkOf(r) + 1, Len(calls[r])), OnHandle)

\* the edits the caller built hold an overlayWith directive with a left or a top
CarriesPlacement(r) ==
    \E j \in 1..Len(given[r].edits.entries) :
        /\ given[r].edits.entries[j].key = "overlayWith"
        /\ given[r].edits.entries[j].value.options.present
        /\ \/ given[r].edits.entries[j].value.options.left # Undef
           \/ given[r].edits.entries[j].value.options.top # Undef

SecondCallOver(r) == CalledAgain(r) /\ pc[r] = "done"

\* both calls got the same answers from S3 and sharp for the overlay
SameAnswers(r) ==
    \A c \in 1..(MarkOf(r) - 1), d \in (MarkOf(r) + 1)..Len(calls[r]) :
        /\ calls[r][c].op = "overlay.toBuffer" /\ calls[r][d].op = "overlay.toBuffer"
        => calls[r][c].arg = calls[r][d].arg

\* C25, as claimed: a second call with the edits object of a first successful
\* call, holding an overlayWith directive with a left or a top, succeeds and
\* makes the same operations on the image handle, composite position included.
C25_SecondCallRepeats ==
    \A r \in Reqs :
        SecondCallOver(r) /\ CarriesPlacement(r) /\ SameAnswers(r) =>
            /\ result[r].kind = "ok"
            /\ Len(SecondOperations(r)) = Len(FirstOperations(r))
            /\ \A c \in 1..Len(FirstOperations(r)) :
                  /\ SecondOperations(r)[c].op = FirstOperations(r)[c].op
                  /\ SecondOperations(r)[c].op = "composite" =>
                        SecondOperations(r)[c].arg = FirstOperations(r)[c].arg

\* C25, what is seen instead: the second call fails in the placement block,
\* where the number the first call stored has no endsWith.
C25_SecondCallThrows ==
    \A r \in Reqs :
        SecondCallOver(r) /\ CarriesPlacement(r)
        /\ (\E c \in (MarkOf(r) + 1)..Len(calls[r]) : calls[r][c].op = "overlay.metadata")
        => result[r] = Rejected(NotAFunctionTypeError)

\* C25: a second call got as far as the placement block of an overlayWith
\* directive whose left the first call had resolved.
C25_Witness ==
    \E r \in Reqs :
        /\ SecondCallOver(r) /\ CarriesPlacement(r)
        /\ result[r] = Rejected(NotAFunctionTypeError)
        /\ keys[r][i[r]] = "overlayWith"
        /\ values[r][i[r]].options.left.t = "num"
        /\ Len(FirstOperations(r)) > 0

(***************************************************************************)
(* Properties of a request, continued (Spec).                              *)
(***************************************************************************)
\* the size of the image directive j sent to detectFaces
SentToDetector(r, j) ==
    calls[r][CHOOSE c \in DetectCalls(r, j) : TRUE].arg

\* the box getBoundingBox returned to the smartCrop directive
FoundBox(r) ==
    getBoundingBox(TRUE, response[r].FaceDetails, NoError,
                   SmartCropOptions(r).faceIndex).BoundingBox

SmartCropExtracts(r) ==
    {c \in ExtractCalls(r) :
        calls[r][c].dir > 0 /\ keys[r][calls[r][c].dir] = "smartCrop"}

\* C26, as claimed: the rectangle a smartCrop directive extracts is the found
\* box scaled by the width and height of the image that went to the detector.
C26_ScaledBySentImage ==
    \A r \in Reqs :
        \A c \in SmartCropExtracts(r) :
            calls[r][c].arg
              = getCropArea(FoundBox(r), SmartCropOptions(r),
                            SentToDetector(r, calls[r][c].dir))

\* C26, what is seen instead: the box is scaled by the size read at the entry
\* of applyEdits, whatever the directives before did to the image.
C26_ScaledByEntrySize ==
    \A r \in Reqs :
        \A c \in SmartCropExtracts(r) :
            calls[r][c].arg
              = getCropArea(FoundBox(r), SmartCropOptions(r), metadata[r])

\* C26: a smartCrop after a resize that changed the size of the image.
C26_Witness ==
    \E r \in Reqs :
        \E c \in SmartCropExtracts(r) :
            /\ keys[r][1] = "resize"
            /\ SentToDetector(r, calls[r][c].dir) # metadata[r]
            /\ calls[r][c].arg
                 # getCropArea(FoundBox(r), SmartCropOptions(r),
                               SentToDetector(r, calls[r][c].dir))

(***************************************************************************)
(* Properties of the functions, continued (SpecFunctions).                 *)
(***************************************************************************)
\* a percent placement between -100 and 100 of an overlay that is no larger
\* than the base on that axis
PercentInRange(opt, base, extent) ==
    /\ opt # Undef
    /\ PlacementOf(opt).percent
    /\ PlacementOf(opt).n >= 0 - 100 /\ PlacementOf(opt).n <= 100
    /\ extent <= base

KeptInside(out, base, extent) ==
    /\ out.t = "num"
    /\ 0 <= out.n
    /\ out.n + extent <= base

\* C27, as claimed: a percent placement p with -100 <= p <= 100 of an overlay
\* no larger than the base on that axis resolves to a coordinate c with
\* 0 <= c and c + overlay dimension <= base dimension.
C27_PercentKeepsInside ==
    PlacementProbeDone =>
        /\ PercentInRange(probe.options.left, probe.base.width,
                          probe.overlayMetadata.width)
           => KeptInside(probe.out.left, probe.base.width,
                         probe.overlayMetadata.width)
        /\ PercentInRange(probe.options.top, probe.base.height,
                          probe.overlayMetadata.height)
           => KeptInside(probe.out.top, probe.base.height,
                         probe.overlayMetadata.height)

\* C27, what is seen instead: "100p" puts the overlay at the far edge of the
\* base, all of it outside, and "-100p" before the near edge.
C27_Witness ==
    /\ PlacementProbeDone
    /\ LeftExample(<<"1", "0", "0", "p">>)
    /\ probe.out.left = Num(200)
    /\ probe.options.top = Str(<<"-", "1", "0", "0", "p">>)
    /\ probe.overlayMetadata.height = 10
    /\ probe.out.top = Num(0 - 10)

\* padding 0 or absent, and a bounding box inside the unit square
UnpaddedInside ==
    /\ PaddingOf(probe.options.padding).num = 0
    /\ probe.boundingBox.Left >= 0 /\ probe.boundingBox.Top >= 0
    /\ probe.boundingBox.Left + probe.boundingBox.Width <= probe.boundingBox.den
    /\ probe.boundingBox.Top + probe.boundingBox.Height <= probe.boundingBox.den

\* a product of a box fraction and an image dimension that is not 0 and is
\* below 1e-6
Minute(boxNum, dim) ==
    boxNum > 0 /\ boxNum * dim <= (probe.boundingBox.den - 1) \div 1000000

\* C28, as claimed: with no padding and a bounding box inside the unit square,
\* the rectangle of getCropArea lies inside the image: left >= 0, top >= 0,
\* left + width <= metadata.width, top + height <= metadata.height (and
\* extract does not refuse it).
C28_UnpaddedCropInside ==
    CropProbeDone /\ UnpaddedInside =>
        /\ ~Exceeds(probe.out, probe.metadata)
        /\ ~ExtractThrows(probe.out)

\* C28, what is seen instead: the rectangle lies inside the image unless one
\* of the four products is minute; extract never refuses it at the call.
C28_InsideUnlessMinute ==
    CropProbeDone /\ UnpaddedInside =>
        /\ ~ExtractThrows(probe.out)
        /\ Exceeds(probe.out, probe.metadata) =>
              \/ Minute(probe.boundingBox.Left, probe.metadata.width)
              \/ Minute(probe.boundingBox.Top, probe.metadata.height)
              \/ Minute(probe.boundingBox.Width, probe.metadata.width)
              \/ Minute(probe.boundingBox.Height, probe.metadata.height)

\* C28: Left * width = 6.6e-7 is read as 6, and 6 + 32 > 33.
C28_Witness ==
    /\ CropProbeDone /\ UnpaddedInside
    /\ probe.options.padding = Undef
    /\ probe.metadata.width = 33
    /\ probe.out.left.n = 6 /\ probe.out.width.n = 32

\* C28: the rectangle of a box inside the unit square on ordinary values.
C28_WitnessInside ==
    /\ CropProbeDone /\ UnpaddedInside
    /\ probe.boundingBox = [Left |-> 1, Top |-> 3, Width |-> 5, Height |-> 3, den |-> 8]
    /\ probe.metadata = [width |-> 33, height |-> 77]
    /\ probe.out.left.n = 4 /\ probe.out.width.n = 20
    /\ probe.out.top.n = 28 /\ probe.out.height.n = 28

(***************************************************************************)
(* Properties of a request, continued (Spec).                              *)
(***************************************************************************)
WatermarkDirectives(r) == {j \in 1..Len(keys[r]) : keys[r][j] = "TEPWatermark"}

\* TEPWatermark, given no bucket and no key, is the only directive of the
\* request besides resize
OnlyWatermark(r) ==
    /\ WatermarkDirectives(r) # {}
    /\ \A j \in 1..Len(keys[r]) : keys[r][j] \in {"TEPWatermark", "resize"}
    /\ \A j \in WatermarkDirectives(r) :
          values[r][j].bucket = "undefined" /\ values[r][j].key = "undefined"

NoWatermarkFetch(r) ==
    /\ \A j \in WatermarkDirectives(r) :
          /\ FetchCalls(r, j) = {}
          /\ \A c \in CallsOf(r, j) : calls[r][c].op # "overlay.toBuffer"
    /\ OnlyWatermark(r) => ~FailedInGetOverlayImage(r)

\* C29, as claimed: a TEPWatermark directive makes no call to S3 and converts
\* no overlay, and a request with TEPWatermark alone (or with resize), given
\* no bucket and no key, does not fail in getOverlayImage.
C29_WatermarkNeverFetches == \A r \in Reqs : NoWatermarkFetch(r)

\* C29, what is seen instead: that holds of part_000; image-handler.js calls
\* getOverlayImage once for every TEPWatermark directive it reaches.
C29_FetchesInOneCopyOnly ==
    \A r \in Reqs :
        /\ build = "part_000" => NoWatermarkFetch(r)
        /\ build = "image-handler.js" =>
              \A j \in WatermarkDirectives(r) :
                  (j < i[r] /\ Dispatched(r, j)) => Cardinality(FetchCalls(r, j)) = 1

\* C29: the request with TEPWatermark alone and no bucket fails in
\* getOverlayImage with what S3 says of a missing parameter, as status 500.
C29_Witness ==
    \E r \in Reqs :
        /\ build = "image-handler.js"
        /\ OnlyWatermark(r) /\ Len(given[r].edits.entries) = 1
        /\ FailedInGetOverlayImage(r)
        /\ result[r].err.status = 500
        /\ result[r].err.code = MissingParameterError.code

\* C29: the same request in part_000 went through without a fetch.
C29_WitnessNoFetch ==
    \E r \in Reqs :
        /\ build = "part_000"
        /\ OnlyWatermark(r) /\ Len(given[r].edits.entries) = 1
        /\ pc[r] = "done" /\ result[r].kind = "ok"
        /\ \A c \in 1..Len(calls[r]) : calls[r][c].who # "s3"

=============================================================================
